---- MODULE Spec2Model ----
(***************************************************************************)
(* Crowdplex: the aggregation and ranking pipeline of the frontend         *)
(* (loadTheatresAndShowtimes in App.jsx), the two bounded-concurrency      *)
(* batch runners of services/api.js, and the seat totals the backend       *)
(* proxy computes for GET /api/seat-availability.                          *)
(*                                                                         *)
(* JavaScript runs the code between two awaits without interruption, so    *)
(* one action is one such run: from the settlement of a promise to the     *)
(* next await.  A JavaScript object is a record, a property that is        *)
(* missing or undefined is a field outside the record's DOMAIN.            *)
(***************************************************************************)
EXTENDS Integers, Sequences, FiniteSets, TLC

VARIABLES
    \* ---- one call of a batch runner (services/api.js)
    runner,         \* which runner: "none", "showtimes", "seats"
    status,         \* "idle", "running", "returned", "rejected"
    items,          \* the array passed in (theatres / showtimes)
    concurrency,    \* the concurrency argument
    queue,          \* const queue = [...items]
    results,        \* const results = []
    workers,        \* the promises of Array(...).map(() => processNext())
    \* ---- one run of loadTheatresAndShowtimes (App.jsx)
    pc,             \* "idle", "theatres", "showtimes", "seats", "done"
    locations,      \* location.locations.length
    i,              \* the loop index of the area loop
    theatreData,    \* the settlement of the latest fetchTheatres
    allTheatres,
    seenTheatreIds,
    allSessions,
    \* ---- React state of App
    loading,
    error,
    movies,
    theatres,
    progress,
    \* ---- one request of GET /api/seat-availability (backend proxy)
    data,           \* the body the upstream API answered with
    enrichedData,   \* the body the proxy answers with
    \* ---- the backend server (server.js, rateLimiter.js, cache.js)
    listening,      \* the callback of app.listen has run
    now,            \* Date.now(), in milliseconds since the module was loaded
    rateLimitStore, \* const rateLimitStore = new Map(): ip -> timestamps
    store,          \* cache.store: key -> { value, expiresAt }
    pending,        \* the requests that await the upstream API
    res,            \* the response the latest step sent, if any
    console,        \* the lines the latest step wrote with console.log / .error
    upstream,       \* history: the answer of the upstream API handled last
    admitted,       \* history: ip -> times of the requests passed on of late
    \* ---- the controls (App.jsx render, LocationInput.jsx)
    location,       \* useState(null): Null, or { mode, locations }
    selectedDate,   \* useState(getTodayDate()): the day, counted from today = 1
    useGPS,         \* LocationInput: useState(false)
    geolocating,    \* the calls of getCurrentPosition not called back yet
    runs,           \* the calls of loadTheatresAndShowtimes that have not returned
    \* ---- history
    fetchLog,       \* every request issued in the run, in order of issue
    settleLog       \* the fetches of the current batch that settled, in order

runnerVars == <<runner, status, items, concurrency, queue, results, workers>>
pipeVars == <<pc, locations, i, theatreData, allTheatres, seenTheatreIds, allSessions>>
uiVars == <<loading, error, movies, theatres, progress>>
serverVars == <<listening, now, rateLimitStore, store, pending, res, console, upstream,
               admitted>>
controlVars == <<location, selectedDate, useGPS, geolocating, runs>>
proxyVars == <<data, enrichedData, serverVars, controlVars>>
histVars == <<fetchLog, settleLog>>
vars == <<runnerVars, pipeVars, uiVars, proxyVars, histVars>>

----------------------------------------------------------------------------
(* Bounds of the model *)

MaxQueue == 3       \* longest array handed to a stand-alone batch runner
MaxK == 3           \* largest concurrency handed to a stand-alone batch runner
MaxAreas == 2       \* most search areas of one run
MaxRuns == 2        \* most runs of loadTheatresAndShowtimes in progress at a time
MaxPositionRequests == 1  \* most calls of getCurrentPosition not called back yet
MaxSeats == 40      \* most seats of a seat map the proxy is given
\* The code fetches seats for sortedSessions.slice(0, 200).  The model keeps
\* the slice and scales the 200 down so that lists longer than the cap occur.
SeatFetchCap == 2

\* The concurrency arguments of the two calls in loadTheatresAndShowtimes.
ShowtimeConcurrency == 5
SeatConcurrency == 15

----------------------------------------------------------------------------
(* Sequences *)

Min(a, b) == IF a < b THEN a ELSE b

Range(s) == {s[k] : k \in DOMAIN s}

SeqsUpTo(S, n) == UNION {[1..k -> S] : k \in 0..n}

\* Array.prototype.slice(0, n)
Slice(s, n) == SubSeq(s, 1, Min(n, Len(s)))

RECURSIVE Concat(_)
Concat(ss) == IF ss = <<>> THEN <<>> ELSE Head(ss) \o Concat(Tail(ss))

\* obj[field] = value
Assign(obj, field, value) ==
    [f \in DOMAIN obj \cup {field} |-> IF f = field THEN value ELSE obj[f]]

EmptyObject == [f \in {} |-> 0]

\* obj[field] as an optional value: <<>> for undefined, <<value>> otherwise
Get(obj, field) == IF field \in DOMAIN obj THEN <<obj[field]>> ELSE <<>>

\* a || b for optional strings
OrElse(a, b) == IF a \notin {<<>>, <<"">>} THEN a ELSE b

\* obj[field] = value, where <<>> stands for undefined
AssignIfDefined(obj, field, value) ==
    IF value = <<>> THEN obj ELSE Assign(obj, field, value[1])

\* null
Null == [null |-> TRUE]

----------------------------------------------------------------------------
(* Settlements of the promises the collaborators return *)

Rejected(msg) == [ok |-> FALSE, message |-> msg]
Resolved(body) == [ok |-> TRUE, body |-> body]

----------------------------------------------------------------------------
(* Data *)

\* A theatre of a lookup: its id and the data that depends on the search
\* area it was found from (location.distance).
Theatre(id, distance) == [theatreId |-> id, distance |-> distance]

MovieName(m) == IF m = 1 THEN "Alpha" ELSE IF m = 2 THEN "Beta" ELSE "Gamma"

\* A session of a showtimes payload.
SessionAt(id, start) ==
    [vistaSessionId |-> id,
     showStartDateTime |-> start,
     seatsRemaining |-> 5,
     isSoldOut |-> FALSE,
     seatMapUrl |-> "/seatmap",
     auditorium |-> "1"]

\* One movie of a showtimes payload with one experience holding one session
\* per start time; b numbers the movie inside the payload.
MovieBlock(b, m, times) ==
    [id |-> m, name |-> MovieName(m),
     mediumPosterImageUrl |-> "/medium.jpg",
     smallPosterImageUrl |-> "/small.jpg",
     runtimeInMinutes |-> 90 + m,
     presentationType |-> "2D",
     experiences |-> <<
        [experienceTypes |-> <<"Regular">>,
         sessions |-> [k \in 1..Len(times) |-> SessionAt((10 * b) + k, times[k])]] >>]

\* The payload of lookupShowtimes for theatre t: one theatre, one date.
ShowtimesPayload(t, blocks) ==
    << [theatreId |-> t, theatre |-> "Cinema",
        dates |-> << [movies |-> [b \in 1..Len(blocks) |->
                        MovieBlock(b, blocks[b].m, blocks[b].times)]] >>] >>

\* The movie lists the model draws showtimes payloads from: a single
\* session, two sessions of one movie out of start order, two movies with
\* equal start times.
BlockLists ==
    { << [m |-> 1, times |-> <<2>>] >>,
      << [m |-> 1, times |-> <<2, 1>>] >>,
      << [m |-> 2, times |-> <<1>>], [m |-> 1, times |-> <<1>>] >> }

----------------------------------------------------------------------------
(* Numbers *)

\* A JavaScript number is an IEEE 754 double.  A positive one is written as
\* [m, e]: its value is M * 2^e for the integer M of SignificandBits bits
\* (2^52 <= M < 2^53) that m holds as three digits of base 2^LimbBits, the
\* most significant first.  Zero has the digits 0.  The operators below
\* are exact for the integers the program computes with (below 2^13).
SignificandBits == 53
LimbBits == 18

RECURSIVE Pow2(_)
Pow2(n) == IF n = 0 THEN 1 ELSE 2 * Pow2(n - 1)

Limb == Pow2(LimbBits)

\* The least value of the first digit: 2^52 / 2^36
TopDigit == Pow2(SignificandBits - 1 - (2 * LimbBits))

Zero == [m |-> <<0, 0, 0>>, e |-> 0]

\* The next double above x.
NextUp(x) ==
    LET l3 == x.m[3] + 1
        l2 == x.m[2] + (l3 \div Limb)
        l1 == x.m[1] + (l2 \div Limb)
    IN  IF l1 = 2 * TopDigit
        THEN [m |-> <<TopDigit, 0, 0>>, e |-> x.e + 1]
        ELSE [m |-> <<l1, l2 % Limb, l3 % Limb>>, e |-> x.e]

\* Round to nearest, ties to even: x is the exact value cut off behind its
\* last bit, twiceRest / unit is the part cut off, as a share of that bit.
RoundToNearestEven(x, twiceRest, unit) ==
    IF twiceRest > unit \/ (twiceRest = unit /\ (x.m[3] % 2) = 1) THEN NextUp(x) ELSE x

RECURSIVE Scale(_, _, _)
\* a / b brought into [1, 2) by powers of two: a / b = num / den * 2^exp.
Scale(num, den, exp) ==
    IF num < den THEN Scale(2 * num, den, exp - 1)
    ELSE IF num >= 2 * den THEN Scale(num, 2 * den, exp + 1)
    ELSE [num |-> num, den |-> den, exp |-> exp]

\* a / b for integers a >= 0 and b > 0: a long division that finds the
\* digits of the quotient one after the other, then the rounding.
Divide(a, b) ==
    IF a = 0 THEN Zero
    ELSE LET s == Scale(a, b, 0)
             r0 == (s.num - s.den) * TopDigit
             r1 == (r0 % s.den) * Limb
             r2 == (r1 % s.den) * Limb
         IN  RoundToNearestEven(
                [m |-> <<TopDigit + (r0 \div s.den), r1 \div s.den, r2 \div s.den>>,
                 e |-> s.exp - (SignificandBits - 1)],
                2 * (r2 % s.den), s.den)

RECURSIVE ExtraBits(_)
\* By how many bits a first digit is too long.
ExtraBits(digit) == IF digit < 2 * TopDigit THEN 0 ELSE 1 + ExtraBits(digit \div 2)

\* x * c for a double x and an integer c >= 1: the exact product, cut back
\* to SignificandBits bits, then the rounding.
Times(x, c) ==
    IF x = Zero THEN Zero
    ELSE LET p3 == x.m[3] * c
             p2 == (x.m[2] * c) + (p3 \div Limb)
             p1 == (x.m[1] * c) + (p2 \div Limb)
             s == ExtraBits(p1)
             cut == Pow2(s)
             low == p3 % Limb
             mid == p2 % Limb
         IN  RoundToNearestEven(
                [m |-> <<p1 \div cut,
                         (mid \div cut) + ((p1 % cut) * (Limb \div cut)),
                         (low \div cut) + ((mid % cut) * (Limb \div cut))>>,
                 e |-> x.e + s],
                2 * (low % cut), cut)

\* Math.round(x) for a double 0 <= x < 2^17: the integer part, and one more
\* if the fraction is at least a half.
MathRound(x) ==
    LET f == 0 - x.e    \* the number of bits behind the binary point
    IN  IF x = Zero \/ f > SignificandBits THEN 0
        ELSE IF f > (2 * LimbBits)
             THEN (x.m[1] \div Pow2(f - (2 * LimbBits)))
                  + ((x.m[1] \div Pow2(f - (2 * LimbBits) - 1)) % 2)
             ELSE x.m[1] + (x.m[2] \div Pow2(LimbBits - 1))

\* Math.round(num / den)
RoundDiv(num, den) == MathRound(Divide(num, den))

----------------------------------------------------------------------------
(* Backend proxy: GET /api/seat-availability *)

CountOf(raw, state) == Cardinality({k \in DOMAIN raw : raw[k] = state})

\* data.seatAvailabilities || {}
SeatAvailabilities(body) ==
    IF "seatAvailabilities" \in DOMAIN body THEN body.seatAvailabilities ELSE EmptyObject

\* Math.round((occupiedSeats / totalSeats) * 100)
OccupancyPercentage(occupiedSeats, totalSeats) ==
    MathRound(Times(Divide(occupiedSeats, totalSeats), 100))

\* enrichedData = { ...data, totalSeats, occupiedSeats, availableSeats,
\*                  occupancyPercentage }
EnrichedData(body) ==
    LET seatAvailabilities == SeatAvailabilities(body)
        totalSeats == Cardinality(DOMAIN seatAvailabilities)
        occupiedSeats == CountOf(seatAvailabilities, "Occupied")
        availableSeats == CountOf(seatAvailabilities, "Available")
    IN  Assign(Assign(Assign(Assign(body,
            "totalSeats", totalSeats),
            "occupiedSeats", occupiedSeats),
            "availableSeats", availableSeats),
            "occupancyPercentage",
                IF totalSeats > 0 THEN OccupancyPercentage(occupiedSeats, totalSeats) ELSE 0)

\* The seat map of the given seats, some of them occupied.
SeatMapOf(seats, occupied) == [k \in seats |-> IF k \in occupied THEN "Occupied" ELSE "Available"]

\* The answer of the proxy for an upstream body that holds the seat map raw.
SeatSnapshot(raw) == EnrichedData([seatAvailabilities |-> raw])

----------------------------------------------------------------------------
(* Backend: cache.js *)

\* this.store.set(key, value) of a Map
MapSet(map, key, value) == Assign(map, key, value)

\* this.store.delete(key) of a Map, for each of the keys
MapDelete(map, keys) == [k \in DOMAIN map \ keys |-> map[k]]

\* set(key, value, ttlMs) at time t
CacheSet(st, key, value, ttlMs, t) ==
    MapSet(st, key, [value |-> value, expiresAt |-> t + ttlMs])

\* An entry that is taken to be fresh for ever.
NeverExpired(entry, t) == FALSE

\* Date.now() > entry.expiresAt
Expired(entry, t) == t > entry.expiresAt

\* get(key) at time t: the value returned and the store it leaves
CacheGet(st, key, t) ==
    IF key \notin DOMAIN st THEN [value |-> Null, store |-> st]
    ELSE IF Expired(st[key], t) THEN [value |-> Null, store |-> MapDelete(st, {key})]
    ELSE [value |-> st[key].value, store |-> st]

\* cleanup() at time t: the keys it deletes
KeysToDelete(st, t) == {k \in DOMAIN st : Expired(st[k], t)}

\* setInterval(() => cache.cleanup(), 5 * 60 * 1000)
CleanupEveryMs == 5 * 60 * 1000

----------------------------------------------------------------------------
(* Backend: rateLimiter.js *)

\* createRateLimiter({ maxRequests: 500, windowMs: 60 * 1000 }).  The model
\* scales the 500 down so that the limit is reached.
MaxRequests == 2
WindowMs == 60 * 1000

LimitHeader == "X-RateLimit-Limit"
RemainingHeader == "X-RateLimit-Remaining"
ResetHeader == "X-RateLimit-Reset"

\* rateLimitStore.get(ip) || []
RequestsOf(map, ip) == IF ip \in DOMAIN map THEN map[ip] ELSE <<>>

\* requests.filter(timestamp => timestamp > windowStart)
RecentRequests(requests, windowStart) ==
    LET Recent(timestamp) == timestamp > windowStart
    IN  SelectSeq(requests, Recent)

\* A check that lets one request more through.
LimitExceededLate(recentRequests) == Len(recentRequests) > MaxRequests

\* recentRequests.length >= maxRequests
LimitExceeded(recentRequests) == Len(recentRequests) >= MaxRequests

\* Math.min(...recentRequests)
Oldest(recentRequests) ==
    CHOOSE t \in Range(recentRequests) : \A u \in Range(recentRequests) : t <= u

\* Math.ceil(num / den) for num > 0
Ceil(num, den) == (num + den - 1) \div den

\* Math.ceil((oldestRequest + windowMs - now) / 1000)
ResetTime(recentRequests, t) == Ceil((Oldest(recentRequests) + WindowMs) - t, 1000)

\* The response of the limiter to a request over the limit.
TooManyRequests(recentRequests, t) ==
    [status |-> 429,
     headers |-> Assign(Assign(Assign(EmptyObject,
                    LimitHeader, MaxRequests),
                    RemainingHeader, 0),
                    ResetHeader, ResetTime(recentRequests, t)),
     body |-> [error |-> "Too many requests",
               message |-> "Rate limit exceeded. Maximum " \o ToString(MaxRequests)
                           \o " requests per " \o ToString(WindowMs \div 1000)
                           \o " seconds.",
               retryAfter |-> ResetTime(recentRequests, t)]]

\* The headers the limiter sets on a request it passes on; recentRequests
\* holds the request itself by then.
PassedHeaders(recentRequests) ==
    Assign(Assign(EmptyObject,
        LimitHeader, MaxRequests),
        RemainingHeader, MaxRequests - Len(recentRequests))

----------------------------------------------------------------------------
(* Backend: server.js *)

\* process.env.CINEPLEX_API_KEY, character by character
API_KEY == <<"c", "i", "n", "e", "p", "l", "e", "x", "k", "e", "y">>

\* String.prototype.substring(start, end)
Substring(chars, start, end) == SubSeq(chars, start + 1, Min(end, Len(chars)))

\* The lines the callback of app.listen writes; a line is the sequence of
\* the pieces of text and of the characters it is put together from.
StartupLines ==
    << <<"Server running on http://localhost:5174">>,
       <<"API Key configured: ">> \o Substring(API_KEY, 0, 8) \o <<"...">>,
       <<"Rate limit: 500 requests/minute per IP">>,
       <<"Cache: 5min (theatres), 2min (showtimes), 1min (seats)">> >>

Routes == {"theatres", "showtimes", "seats"}

\* The query parameters a route requires.
RequiredParams(route) ==
    CASE route = "theatres" -> {"latitude", "longitude"}
      [] route = "showtimes" -> {"theatreId", "date"}
      [] route = "seats" -> {"theatreId", "showtimeId"}

\* if (!latitude || !longitude), if (!theatreId || !date), ...
MissingParams(route, query) == RequiredParams(route) \ DOMAIN query # {}

\* parseFloat(text), for the texts of the requests the model follows: <<>>
\* for NaN, else <<the number>>, counted in ten-thousandths.
ParseFloat(text) ==
    CASE text = "49.2765" -> <<492765>>
      [] text = "-123.1247" -> <<-1231247>>
      [] text = "91" -> <<910000>>
      [] OTHER -> <<>>

\* `${lat}`: the text of a number counted in ten-thousandths
NumberText(n) ==
    CASE n = 492765 -> "49.2765"
      [] n = -1231247 -> "-123.1247"
      [] n = 910000 -> "91"

\* parseInt(text, 10), in the same way
ParseInt(text) ==
    CASE text = "1422" -> <<1422>>
      [] OTHER -> <<>>

\* isNaN(lat) || isNaN(lon) || lat < -90 || lat > 90 || lon < -180 || lon > 180
\* for the theatres, isNaN(theatreIdNum) for the showtimes
InvalidParams(route, query) ==
    CASE route = "theatres" ->
            LET lat == ParseFloat(query.latitude)
                lon == ParseFloat(query.longitude)
            IN  \/ lat = <<>>
                \/ lon = <<>>
                \/ lat[1] < -90 * 10000
                \/ lat[1] > 90 * 10000
                \/ lon[1] < -180 * 10000
                \/ lon[1] > 180 * 10000
      [] route = "showtimes" -> ParseInt(query.theatreId) = <<>>
      [] route = "seats" -> FALSE

\* const { accuracyKm = '5', city = '', ... } = req.query
Param(query, name, default) == IF name \in DOMAIN query THEN query[name] ELSE default

\* if (city) { params.append('city', city); params.append('City', city) }
AppendIfGiven(params, query, name, Name) ==
    IF Param(query, name, "") # ""
    THEN Assign(Assign(params, name, query[name]), Name, query[name])
    ELSE params

\* What the upstream API is asked: the parameters of the URL or, for the
\* seats, the two ids of its path.
UpstreamUrl(route, query) ==
    CASE route = "theatres" ->
            LET params == [language |-> "en",
                           latitude |-> query.latitude,
                           longitude |-> query.longitude,
                           accuracyKm |-> Param(query, "accuracyKm", "5"),
                           Latitude |-> query.latitude,
                           Longitude |-> query.longitude,
                           AccuracyKm |-> Param(query, "accuracyKm", "5"),
                           Country |-> Param(query, "country", "Canada")]
            IN  AppendIfGiven(AppendIfGiven(AppendIfGiven(AppendIfGiven(params,
                    query, "city", "City"),
                    query, "region", "Region"),
                    query, "regionCode", "RegionCode"),
                    query, "postalCode", "PostalCode")
      [] route = "showtimes" ->
            [language |-> "en", locationId |-> query.theatreId, date |-> query.date]
      [] route = "seats" ->
            [theatre |-> query.theatreId, showtime |-> query.showtimeId]

\* const cacheKey = `theatres:${lat}:${lon}:${accuracyKm}` and the like
CacheKey(route, query) ==
    CASE route = "theatres" ->
            "theatres:" \o NumberText(ParseFloat(query.latitude)[1])
                \o ":" \o NumberText(ParseFloat(query.longitude)[1])
                \o ":" \o Param(query, "accuracyKm", "5")
      [] route = "showtimes" ->
            "showtimes:" \o query.theatreId \o ":" \o query.date
      [] route = "seats" ->
            "seats:" \o query.theatreId \o ":" \o query.showtimeId

\* cache.set(cacheKey, data, 5 * 60 * 1000) and the like
TtlMs(route) ==
    CASE route = "theatres" -> 5 * 60 * 1000
      [] route = "showtimes" -> 2 * 60 * 1000
      [] route = "seats" -> 60 * 1000

BadRequestMessage(route) ==
    CASE route = "theatres" -> "latitude and longitude are required"
      [] route = "showtimes" -> "theatreId and date are required"
      [] route = "seats" -> "theatreId and showtimeId are required"

InvalidMessage(route) ==
    CASE route = "theatres" -> "Invalid latitude or longitude values"
      [] route = "showtimes" -> "theatreId must be a valid number"

FailedMessage(route) ==
    CASE route = "theatres" -> "Failed to fetch theatres"
      [] route = "showtimes" -> "Failed to fetch showtimes"
      [] route = "seats" -> "Failed to fetch seat availability"

\* A proxy that answers every upstream error as a bad gateway.
BadGateway(s) == 502

\* res.status(response.status)
UpstreamErrorStatus(s) == s

\* res.status(response.status).json({ error, message, status })
UpstreamError(s) ==
    [error |-> "Upstream API Error",
     message |-> "Cineplex API returned status " \o ToString(s),
     status |-> s]

\* The body the route caches and answers with.
RouteData(route, body) == IF route = "seats" THEN EnrichedData(body) ELSE body

NoResponse == [status |-> 0]
NoAnswer == [kind |-> "none"]

\* The response of a request: by whom and for what it was asked, when it
\* is sent, and what it carries.
Response(ip, route, query, t, code, headers, body) ==
    [ip |-> ip, route |-> route, query |-> query, at |-> t, status |-> code,
     headers |-> headers, body |-> body]

\* A handler that caches the body of an answer that is not OK.
CacheSetOnError(st, key, body, ttlMs, t) == CacheSet(st, key, body, ttlMs, t)

\* return res.status(response.status).json(...) and the catch block: the
\* cache is left as it is.
CacheOnError(st, key, body, ttlMs, t) == st

\* The clients whose requests the model follows.
Ips == {"10.0.0.1", "10.0.0.2"}

\* The state once the modules are loaded.
ServerLoaded ==
    /\ listening = FALSE
    /\ now = 0
    /\ rateLimitStore = EmptyObject
    /\ store = EmptyObject
    /\ pending = {}
    /\ res = NoResponse
    /\ console = <<>>
    /\ upstream = NoAnswer
    /\ admitted = [ip \in Ips |-> <<>>]

----------------------------------------------------------------------------
(* services/api.js: fetchShowtimesForTheatres, fetchSeatAvailabilityBatch *)

\* results.push({ theatre, showtimes, success: true }) or
\* results.push({ theatre, error: error.message, success: false })
ShowtimesResult(theatre, resp) ==
    IF resp.ok
    THEN [theatre |-> theatre, showtimes |-> resp.body, success |-> TRUE]
    ELSE [theatre |-> theatre, error |-> resp.message, success |-> FALSE]

SeatResult(showtime, resp) ==
    IF resp.ok
    THEN [showtimeId |-> showtime.vistaSessionId, theatreId |-> showtime.theatreId,
          seatData |-> resp.body, success |-> TRUE]
    ELSE [showtimeId |-> showtime.vistaSessionId, theatreId |-> showtime.theatreId,
          error |-> resp.message, success |-> FALSE]

ResultOf(kind, item, resp) ==
    IF kind = "showtimes" THEN ShowtimesResult(item, resp) ELSE SeatResult(item, resp)

\* A processNext that returns when a single item is left.
WorkerLeavesLast(q) ==
    IF Len(q) <= 1 THEN [st |-> "done"] ELSE [st |-> "inflight", item |-> Head(q)]

\* A processNext that takes its item from the wrong end of the queue.
WorkerTakesLast(q) ==
    IF q = <<>> THEN [st |-> "done"] ELSE [st |-> "inflight", item |-> q[Len(q)]]

\* processNext up to its await: with an empty queue the worker's promise
\* resolves, otherwise the head of the queue is shifted and its fetch starts.
WorkerAfterProcessNext(q) ==
    IF q = <<>> THEN [st |-> "done"] ELSE [st |-> "inflight", item |-> Head(q)]

QueueAfterProcessNext(q) == IF q = <<>> THEN q ELSE Tail(q)

\* history: the request a worker has just issued, if any
IssuedBy(kind, worker) ==
    IF worker.st = "inflight" THEN << [kind |-> kind, item |-> worker.item] >> ELSE <<>>

\* One worker per item, whatever the concurrency argument.
WorkerPerItem(k, n) == n

\* Math.min(concurrency, items.length)
WorkerCount(k, n) == Min(k, n)

RECURSIVE Launch(_, _, _)
\* Array(n).fill(0).map(() => processNext()): n calls of processNext, one
\* after the other, each up to its await.
Launch(kind, q, n) ==
    IF n = 0 THEN [workers |-> <<>>, queue |-> q, issued |-> <<>>]
    ELSE LET prev == Launch(kind, q, n - 1)
         IN  [workers |-> Append(prev.workers, WorkerAfterProcessNext(prev.queue)),
              queue |-> QueueAfterProcessNext(prev.queue),
              issued |-> prev.issued \o IssuedBy(kind, WorkerAfterProcessNext(prev.queue))]

\* The call of a batch runner up to its await Promise.all(workers).
\* Array(n) with n < 0 throws a RangeError, which rejects the runner.
Call(kind, its, k) ==
    LET n == WorkerCount(k, Len(its))
    IN  /\ runner' = kind
        /\ items' = its
        /\ concurrency' = k
        /\ results' = <<>>
        /\ settleLog' = <<>>
        /\ IF n < 0
           THEN /\ status' = "rejected"
                /\ queue' = its
                /\ workers' = <<>>
                /\ fetchLog' = fetchLog
           ELSE LET l == Launch(kind, its, n)
                IN  /\ status' = "running"
                    /\ queue' = l.queue
                    /\ workers' = l.workers
                    /\ fetchLog' = fetchLog \o l.issued

\* A catch block that throws the error again.
StatusRethrown(resp) == IF resp.ok THEN "running" ELSE "rejected"

\* try { await fetch...; results.push(...) } catch (error) { results.push(...) }:
\* the catch block does not throw again, the runner goes on.
StatusAfterSettle(resp) == "running"

InFlight == {w \in DOMAIN workers : workers[w].st = "inflight"}

\* A catch block that puts the item whose fetch failed back into the queue.
QueueWithRetry(q, item, resp) == IF resp.ok THEN q ELSE Append(q, item)

\* The queue after the try / catch of processNext: neither block touches it.
QueueAfterSettle(q, item, resp) == q

\* The fetch of worker w settles with resp: the rest of processNext runs
\* (push the result, then processNext again up to its await).
FetchSettles(w, resp) ==
    /\ status = "running"
    /\ w \in InFlight
    /\ results' = Append(results, ResultOf(runner, workers[w].item, resp))
    /\ LET q == QueueAfterSettle(queue, workers[w].item, resp)
       IN  /\ workers' = [workers EXCEPT ![w] = WorkerAfterProcessNext(q)]
           /\ queue' = QueueAfterProcessNext(q)
           /\ fetchLog' = fetchLog \o IssuedBy(runner, WorkerAfterProcessNext(q))
    /\ status' = StatusAfterSettle(resp)
    /\ settleLog' = Append(settleLog, [item |-> workers[w].item, resp |-> resp])
    /\ UNCHANGED <<runner, items, concurrency>>

\* A wait that ends as soon as one worker is done.
SomeWorkerDone == status = "running" /\ \E w \in DOMAIN workers : workers[w].st = "done"

\* A wait that ends as soon as the queue is empty.
QueueDrained == status = "running" /\ queue = <<>>

\* await Promise.all(workers) resolves
AllWorkersDone == status = "running" /\ InFlight = {}

----------------------------------------------------------------------------
(* A batch runner on its own: any array, any concurrency *)

RunnerTheatres == {Theatre(1, 1), Theatre(2, 1)}

RunnerSessions ==
    { [theatreId |-> 1, vistaSessionId |-> 11, showStartDateTime |-> 1],
      [theatreId |-> 1, vistaSessionId |-> 12, showStartDateTime |-> 2] }

RunnerItems(kind) == IF kind = "showtimes" THEN RunnerTheatres ELSE RunnerSessions

\* What a fetch of the runner settles with: a failure, or a payload with
\* one session, or the snapshot of a house of one seat, which is taken.
RunnerResponses(kind, item) ==
    IF kind = "showtimes"
    THEN {Rejected("HTTP 500"),
          Resolved(ShowtimesPayload(item.theatreId, << [m |-> 1, times |-> <<2>>] >>))}
    ELSE {Rejected("HTTP 500"),
          Resolved([seatAvailabilities |-> [k \in {"A1"} |-> "Occupied"],
                    totalSeats |-> 1, occupiedSeats |-> 1, availableSeats |-> 0,
                    occupancyPercentage |-> 100])}

NoSettlement == Rejected("none")
NoProgress == [stage |-> "", current |-> 0, total |-> 0]
NoRequest == [request |-> "none"]

\* App and LocationInput as they are mounted: no location, today's date
ControlsMounted ==
    /\ location = Null
    /\ selectedDate = 1
    /\ useGPS = FALSE
    /\ geolocating = 0
    /\ runs = <<>>

Init ==
    /\ runner = "none"
    /\ status = "idle"
    /\ items = <<>>
    /\ concurrency = 0
    /\ queue = <<>>
    /\ results = <<>>
    /\ workers = <<>>
    /\ pc = "idle"
    /\ locations = 0
    /\ i = 0
    /\ theatreData = NoSettlement
    /\ allTheatres = <<>>
    /\ seenTheatreIds = {}
    /\ allSessions = <<>>
    /\ loading = FALSE
    /\ error = ""
    /\ movies = <<>>
    /\ theatres = <<>>
    /\ progress = NoProgress
    /\ data = NoRequest
    /\ enrichedData = NoRequest
    /\ ServerLoaded
    /\ ControlsMounted
    /\ fetchLog = <<>>
    /\ settleLog = <<>>

RunnerCall ==
    /\ status = "idle"
    /\ \E kind \in {"showtimes", "seats"} :
       \E its \in SeqsUpTo(RunnerItems(kind), MaxQueue) :
       \E k \in (-1)..MaxK :
          Call(kind, its, k)
    /\ UNCHANGED <<pipeVars, uiVars, proxyVars>>

RunnerSettle ==
    /\ \E w \in InFlight :
       \E resp \in RunnerResponses(runner, workers[w].item) :
          FetchSettles(w, resp)
    /\ UNCHANGED <<pipeVars, uiVars, proxyVars>>

RunnerReturn ==
    /\ AllWorkersDone
    /\ status' = "returned"
    /\ UNCHANGED <<runner, items, concurrency, queue, results, workers>>
    /\ UNCHANGED <<pipeVars, uiVars, proxyVars, histVars>>

NextRunner == RunnerCall \/ RunnerSettle \/ RunnerReturn

SpecRunner == Init /\ [][NextRunner]_vars

\* The same with every fetch settling in the end and every promise that
\* can resolve resolving: the event loop runs the continuations it holds.
SpecRunnerLive == SpecRunner /\ WF_vars(RunnerSettle) /\ WF_vars(RunnerReturn)

----------------------------------------------------------------------------
(* App.jsx, loadTheatresAndShowtimes: the theatre locator *)

\* A merge that pushes every theatre, seen or not.
MergeWithoutCheck(all, seen, nearby) ==
    [allTheatres |-> all \o nearby,
     seenTheatreIds |-> seen \cup {nearby[k].theatreId : k \in DOMAIN nearby}]

RECURSIVE MergeTheatres(_, _, _)
\* nearbyTheatres.forEach(theatre => { if (!seenTheatreIds.has(theatre.theatreId))
\*   { seenTheatreIds.add(theatre.theatreId); allTheatres.push(theatre); } })
MergeTheatres(all, seen, nearby) ==
    IF nearby = <<>> THEN [allTheatres |-> all, seenTheatreIds |-> seen]
    ELSE LET theatre == Head(nearby)
         IN  IF theatre.theatreId \in seen
             THEN MergeTheatres(all, seen, Tail(nearby))
             ELSE MergeTheatres(Append(all, theatre), seen \cup {theatre.theatreId},
                                Tail(nearby))

\* theatreData.nearbyTheatres || []
NearbyTheatres(body) ==
    IF "nearbyTheatres" \in DOMAIN body THEN body.nearbyTheatres ELSE <<>>

----------------------------------------------------------------------------
(* App.jsx, loadTheatresAndShowtimes: the showtime collector *)

\* The upstream flag alone.
SoldOutFlagOnly(session) == Get(session, "isSoldOut") = <<TRUE>>

\* session.isSoldOut || session.seatsRemaining === 0
IsSoldOut(session) ==
    Get(session, "isSoldOut") = <<TRUE>> \/ Get(session, "seatsRemaining") = <<0>>

\* experience.experienceTypes || []
ExperienceTypes(experience) ==
    IF "experienceTypes" \in DOMAIN experience THEN experience.experienceTypes ELSE <<>>

\* allSessions.push({ movieId: movie.id, ... }): a property whose value is
\* undefined is a field the record does not have.
SessionRecord(theatre, movie, experience, session) ==
    LET always == [isSoldOut |-> IsSoldOut(session),
                   experienceTypes |-> ExperienceTypes(experience)]
        a == AssignIfDefined(always, "movieId", Get(movie, "id"))
        b == AssignIfDefined(a, "movieName", Get(movie, "name"))
        c == AssignIfDefined(b, "posterUrl",
                OrElse(Get(movie, "mediumPosterImageUrl"), Get(movie, "smallPosterImageUrl")))
        d == AssignIfDefined(c, "runtime", Get(movie, "runtimeInMinutes"))
        e == AssignIfDefined(d, "presentationType", Get(movie, "presentationType"))
        f == AssignIfDefined(e, "theatreId", Get(theatre, "theatreId"))
        g == AssignIfDefined(f, "theatreName", Get(theatre, "theatre"))
        h == AssignIfDefined(g, "showStartDateTime", Get(session, "showStartDateTime"))
        j == AssignIfDefined(h, "seatsRemaining", Get(session, "seatsRemaining"))
        k == AssignIfDefined(j, "seatMapUrl", Get(session, "seatMapUrl"))
        l == AssignIfDefined(k, "auditorium", Get(session, "auditorium"))
    IN  AssignIfDefined(l, "vistaSessionId", Get(session, "vistaSessionId"))

\* obj[field]?.forEach: the array to walk, none if the property is missing
Each(obj, field) == IF field \in DOMAIN obj THEN obj[field] ELSE <<>>

\* A walk that takes the first session of an experience only.
FirstSessionOnly(theatre, movie, experience) ==
    [k \in 1..Min(1, Len(Each(experience, "sessions"))) |->
        SessionRecord(theatre, movie, experience, experience.sessions[k])]

SessionsOfExperience(theatre, movie, experience) ==
    [k \in 1..Len(Each(experience, "sessions")) |->
        SessionRecord(theatre, movie, experience, experience.sessions[k])]

SessionsOfMovie(theatre, movie) ==
    Concat([k \in 1..Len(Each(movie, "experiences")) |->
        SessionsOfExperience(theatre, movie, movie.experiences[k])])

SessionsOfDate(theatre, dateData) ==
    Concat([k \in 1..Len(Each(dateData, "movies")) |->
        SessionsOfMovie(theatre, dateData.movies[k])])

SessionsOfTheatre(theatre) ==
    Concat([k \in 1..Len(Each(theatre, "dates")) |->
        SessionsOfDate(theatre, theatre.dates[k])])

\* const theatreId = theatreData.theatreId throws a TypeError if theatreData
\* is null: the entries of result.showtimes that are walked before that.
WalkedEntries(showtimes) ==
    IF \E k \in DOMAIN showtimes : showtimes[k] = Null
    THEN SubSeq(showtimes, 1, (CHOOSE k \in DOMAIN showtimes :
                                  /\ showtimes[k] = Null
                                  /\ \A j \in 1..(k - 1) : showtimes[j] # Null) - 1)
    ELSE showtimes

\* if (!result.success || !result.showtimes || result.showtimes.length === 0) return;
SessionsOfResult(result) ==
    IF ~result.success \/ result.showtimes = <<>> THEN <<>>
    ELSE LET walked == WalkedEntries(result.showtimes)
         IN  Concat([k \in 1..Len(walked) |-> SessionsOfTheatre(walked[k])])

\* The walk of this result throws.
ThrowsOn(result) ==
    result.success /\ \E k \in DOMAIN result.showtimes : result.showtimes[k] = Null

FlattenThrows(showtimeResults) ==
    \E k \in DOMAIN showtimeResults : ThrowsOn(showtimeResults[k])

\* The results that are walked: all of them, or those up to the one whose
\* walk throws.
WalkedResults(showtimeResults) ==
    IF FlattenThrows(showtimeResults)
    THEN SubSeq(showtimeResults, 1, CHOOSE k \in DOMAIN showtimeResults :
                                       /\ ThrowsOn(showtimeResults[k])
                                       /\ \A j \in 1..(k - 1) : ~ThrowsOn(showtimeResults[j]))
    ELSE showtimeResults

RECURSIVE FlattenUntilFailure(_)
\* A walk that stops at the first result of a failed fetch.
FlattenUntilFailure(showtimeResults) ==
    IF showtimeResults = <<>> \/ ~Head(showtimeResults).success THEN <<>>
    ELSE SessionsOfResult(Head(showtimeResults)) \o FlattenUntilFailure(Tail(showtimeResults))

\* showtimeResults.forEach(...): the sessions pushed to allSessions
FlattenShowtimes(showtimeResults) ==
    LET walked == WalkedResults(showtimeResults)
    IN  Concat([k \in 1..Len(walked) |-> SessionsOfResult(walked[k])])

\* The message of the TypeError
NullTheatreMessage == "Cannot read properties of null (reading 'theatreId')"

----------------------------------------------------------------------------
(* App.jsx, loadTheatresAndShowtimes: the seat enricher *)

\* The sessions in their array order: the sort is skipped.
Unsorted(sessions) == sessions

RECURSIVE InsertByStart(_, _)
\* x goes behind every session that does not start later than x.
InsertByStart(sorted, x) ==
    IF sorted = <<>> THEN <<x>>
    ELSE IF Head(sorted).showStartDateTime <= x.showStartDateTime
         THEN <<Head(sorted)>> \o InsertByStart(Tail(sorted), x)
         ELSE <<x>> \o sorted

RECURSIVE SortByStart(_)
\* [...allSessions].sort((a, b) => new Date(a.showStartDateTime) -
\* new Date(b.showStartDateTime)): Array.prototype.sort is stable.
SortByStart(sessions) ==
    IF sessions = <<>> THEN <<>>
    ELSE InsertByStart(SortByStart(SubSeq(sessions, 1, Len(sessions) - 1)),
                       sessions[Len(sessions)])

\* A sort of the session list itself.
SortedInPlace(sessions) == SortByStart(sessions)

\* allSessions after const sortedSessions = [...allSessions].sort(...): the
\* spread makes a new array, which is the one that is sorted.
AfterSortOfCopy(sessions) == sessions

\* More sessions than the cap are handed to the seat runner.
SessionsToFetchAll(sessions) == SortByStart(sessions)

\* const sessionsToFetch = sortedSessions.slice(0, 200)
SessionsToFetch(sessions) == Slice(SortByStart(sessions), SeatFetchCap)

\* Template strings: a number is written in decimal digits.
DigitChars == <<"0", "1", "2", "3", "4", "5", "6", "7", "8", "9">>

RECURSIVE NumberToString(_)
NumberToString(n) ==
    IF n < 10 THEN <<DigitChars[n + 1]>>
    ELSE Append(NumberToString(n \div 10), DigitChars[(n % 10) + 1])

\* `${theatreId}-${showtimeId}`
SeatKey(theatreId, showtimeId) ==
    NumberToString(theatreId) \o <<"-">> \o NumberToString(showtimeId)

RECURSIVE SeatDataMap(_)
\* seatResults.forEach(result => { if (result.success && result.seatData)
\*   seatDataMap[`${result.theatreId}-${result.showtimeId}`] = result.seatData })
SeatDataMap(seatResults) ==
    IF seatResults = <<>> THEN EmptyObject
    ELSE LET result == seatResults[Len(seatResults)]
             before == SeatDataMap(SubSeq(seatResults, 1, Len(seatResults) - 1))
         IN  IF result.success
             THEN Assign(before, SeatKey(result.theatreId, result.showtimeId),
                         result.seatData)
             ELSE before

OccupancyFields == {"totalSeats", "occupiedSeats", "availableSeats", "occupancyPercentage"}

\* An enrichment that stops after the first two assignments.
SetOccupancyPartly(session, seatData) ==
    Assign(Assign(session, "totalSeats", seatData.totalSeats),
           "occupiedSeats", seatData.occupiedSeats)

\* session.totalSeats = seatData.totalSeats; ... (the four assignments)
SetOccupancy(session, seatData) ==
    Assign(Assign(Assign(Assign(session,
        "totalSeats", seatData.totalSeats),
        "occupiedSeats", seatData.occupiedSeats),
        "availableSeats", seatData.availableSeats),
        "occupancyPercentage", seatData.occupancyPercentage)

\* An enrichment that sets a session without seat data to zeros.
EnrichOrZero(session, seatDataMap) ==
    LET key == SeatKey(session.theatreId, session.vistaSessionId)
    IN  IF key \in DOMAIN seatDataMap
        THEN SetOccupancy(session, seatDataMap[key])
        ELSE SetOccupancy(session, [totalSeats |-> 0, occupiedSeats |-> 0,
                                    availableSeats |-> 0, occupancyPercentage |-> 0])

\* const seatData = seatDataMap[key]; if (seatData) { ... }
EnrichSession(session, seatDataMap) ==
    LET key == SeatKey(session.theatreId, session.vistaSessionId)
    IN  IF key \in DOMAIN seatDataMap
        THEN SetOccupancy(session, seatDataMap[key])
        ELSE session

\* The k-th session gets the data of the k-th result.
EnrichByPosition(sessions, seatResults) ==
    [k \in 1..Len(sessions) |->
        IF k <= Len(seatResults) /\ seatResults[k].success
        THEN SetOccupancy(sessions[k], seatResults[k].seatData)
        ELSE sessions[k]]

\* allSessions.forEach(session => ...) over the map built from seatResults
EnrichSessions(sessions, seatResults) ==
    [k \in 1..Len(sessions) |-> EnrichSession(sessions[k], SeatDataMap(seatResults))]

HasSeatData(session) == "occupancyPercentage" \in DOMAIN session

----------------------------------------------------------------------------
(* App.jsx, loadTheatresAndShowtimes: the movie ranker *)

RECURSIVE Ascending(_)
\* The numbers of the set S in ascending order.
Ascending(S) ==
    IF S = {} THEN <<>>
    ELSE LET least == CHOOSE x \in S : \A y \in S : x <= y
         IN  <<least>> \o Ascending(S \ {least})

\* if (!movieGroups[key]) movieGroups[key] = { movieId: session.movieId, ... }
NewGroup(session) ==
    AssignIfDefined(AssignIfDefined(AssignIfDefined(AssignIfDefined(AssignIfDefined(
        [showtimes |-> <<>>],
        "movieId", Get(session, "movieId")),
        "name", Get(session, "movieName")),
        "posterUrl", Get(session, "posterUrl")),
        "runtime", Get(session, "runtime")),
        "presentationType", Get(session, "presentationType"))

\* A group that takes its display data from the last session of the movie.
MovieGroupLastSeen(sessions, movieId) ==
    LET OfMovie(session) == session.movieId = movieId
        showtimes == SelectSeq(sessions, OfMovie)
    IN  [NewGroup(showtimes[Len(showtimes)]) EXCEPT !.showtimes = showtimes]

\* movieGroups[`${session.movieId}`]: the group is made from the first
\* session of the movie and every session of the movie is pushed to it.
MovieGroup(sessions, movieId) ==
    LET OfMovie(session) == session.movieId = movieId
        showtimes == SelectSeq(sessions, OfMovie)
    IN  [NewGroup(showtimes[1]) EXCEPT !.showtimes = showtimes]

\* Object.values(movieGroups): the keys are written from numbers, and an
\* object lists such keys in ascending numeric order.
MovieGroups(sessions) ==
    LET ids == Ascending({sessions[k].movieId : k \in DOMAIN sessions})
    IN  [g \in 1..Len(ids) |-> MovieGroup(sessions, ids[g])]

RECURSIVE SumOf(_, _)
\* reduce((sum, s) => sum + s[field], 0)
SumOf(sessions, field) ==
    IF sessions = <<>> THEN 0
    ELSE sessions[1][field] + SumOf(Tail(sessions), field)

\* filter(s => s[field] !== undefined)
Defined(sessions, field) ==
    LET Has(session) == field \in DOMAIN session
    IN  SelectSeq(sessions, Has)

\* A mean in which a session without seat data counts as 0: the value is
\* <<mean>>, or <<>> for undefined.
AverageCountingAll(showtimes) ==
    LET withData == Defined(showtimes, "occupancyPercentage")
    IN  <<RoundDiv(SumOf(withData, "occupancyPercentage"), Len(showtimes))>>

\* sessionsWithSeatData.length > 0 ? Math.round(sum / length) : undefined;
\* the value is <<mean>>, or <<>> for undefined.
AverageOccupancy(showtimes) ==
    LET sessionsWithSeatData == Defined(showtimes, "occupancyPercentage")
    IN  IF Len(sessionsWithSeatData) > 0
        THEN <<RoundDiv(SumOf(sessionsWithSeatData, "occupancyPercentage"),
                        Len(sessionsWithSeatData))>>
        ELSE <<>>

RECURSIVE LastOfEarliest(_)
\* A reduce that prefers the later of two sessions that start together.
LastOfEarliest(showtimes) ==
    IF Len(showtimes) = 1 THEN showtimes[1]
    ELSE LET earliest == LastOfEarliest(SubSeq(showtimes, 1, Len(showtimes) - 1))
             current == showtimes[Len(showtimes)]
         IN  IF current.showStartDateTime <= earliest.showStartDateTime
             THEN current ELSE earliest

RECURSIVE EarliestShowtime(_)
\* movie.showtimes.reduce((earliest, current) =>
\*    currentDate < earliestDate ? current : earliest)
EarliestShowtime(showtimes) ==
    IF Len(showtimes) = 1 THEN showtimes[1]
    ELSE LET earliest == EarliestShowtime(SubSeq(showtimes, 1, Len(showtimes) - 1))
             current == showtimes[Len(showtimes)]
         IN  IF current.showStartDateTime < earliest.showStartDateTime
             THEN current ELSE earliest

\* total > 0 ? total : undefined
PositiveOrUndefined(total) == IF total > 0 THEN <<total>> ELSE <<>>

\* Object.values(movieGroups).map(movie => ({ ...movie, availableCount, ... }))
MovieMetrics(movie) ==
    LET NotSoldOut(session) == ~session.isSoldOut
        totalSeatsBooked == SumOf(Defined(movie.showtimes, "occupiedSeats"), "occupiedSeats")
        totalSeatsAvailable == SumOf(Defined(movie.showtimes, "totalSeats"), "totalSeats")
        base == Assign(Assign(movie,
                    "availableCount", Len(SelectSeq(movie.showtimes, NotSoldOut))),
                    "earliestShowtime", EarliestShowtime(movie.showtimes).showStartDateTime)
    IN  AssignIfDefined(
          AssignIfDefined(
            AssignIfDefined(base, "averageOccupancy", AverageOccupancy(movie.showtimes)),
            "totalSeatsBooked", PositiveOrUndefined(totalSeatsBooked)),
          "totalSeatsAvailable", PositiveOrUndefined(totalSeatsAvailable))

HasAverage(movie) == "averageOccupancy" \in DOMAIN movie

\* A comparator that puts the lower occupancy first.
CompareLowestFirst(a, b) ==
    IF HasAverage(a) /\ ~HasAverage(b) THEN -1
    ELSE IF ~HasAverage(a) /\ HasAverage(b) THEN 1
    ELSE IF HasAverage(a) /\ HasAverage(b) /\ a.averageOccupancy # b.averageOccupancy
         THEN a.averageOccupancy - b.averageOccupancy
         ELSE a.earliestShowtime - b.earliestShowtime

\* The comparator of rankedMovies.sort
CompareMovies(a, b) ==
    IF HasAverage(a) /\ ~HasAverage(b) THEN -1
    ELSE IF ~HasAverage(a) /\ HasAverage(b) THEN 1
    ELSE IF HasAverage(a) /\ HasAverage(b) /\ a.averageOccupancy # b.averageOccupancy
         THEN b.averageOccupancy - a.averageOccupancy
         ELSE a.earliestShowtime - b.earliestShowtime

RECURSIVE InsertMovie(_, _)
\* x goes in front of the first movie the comparator puts behind x.
InsertMovie(sorted, x) ==
    IF sorted = <<>> THEN <<x>>
    ELSE IF CompareMovies(Head(sorted), x) <= 0
         THEN <<Head(sorted)>> \o InsertMovie(Tail(sorted), x)
         ELSE <<x>> \o sorted

RECURSIVE SortMovies(_)
\* rankedMovies.sort(...): Array.prototype.sort is stable
SortMovies(ms) ==
    IF ms = <<>> THEN <<>>
    ELSE InsertMovie(SortMovies(SubSeq(ms, 1, Len(ms) - 1)), ms[Len(ms)])

\* Steps 5 to 7: group by movie, compute the metrics, sort.
RankMovies(sessions) ==
    LET groups == MovieGroups(sessions)
    IN  SortMovies([g \in 1..Len(groups) |-> MovieMetrics(groups[g])])

----------------------------------------------------------------------------
(* App.jsx: one run of loadTheatresAndShowtimes *)

NoTheatresFound == "No theatres found in the selected areas. Try selecting different areas."
NoShowtimesFound == "No showtimes found for the selected date at nearby theatres."

Progress(stage, current, total) == [stage |-> stage, current |-> current, total |-> total]

AreaRequest(area) == [kind |-> "theatres", item |-> [area |-> area]]

\* A finally block without the setProgress.
FinallyKeepsProgress ==
    /\ loading' = FALSE
    /\ progress' = progress
    /\ pc' = "done"

\* finally { setLoading(false); setProgress({ stage: '', current: 0, total: 0 }) }
Finally ==
    /\ loading' = FALSE
    /\ progress' = NoProgress
    /\ pc' = "done"

\* The movies of the run before stay.
MoviesKept(ms) == ms

\* setMovies([])
MoviesAtStart(ms) == <<>>

\* The effect of useEffect once a location with n areas is set or, after a
\* run, the location or the date is changed: a run up to the await of the
\* first fetchTheatres, with fresh locals.
StartRun ==
    /\ pc \in {"idle", "done"}
    /\ \E n \in 1..MaxAreas : 
          /\ locations' = n
          /\ progress' = Progress("theatres", 1, n)
    /\ loading' = TRUE
    /\ error' = ""
    /\ movies' = MoviesAtStart(movies)
    /\ allTheatres' = <<>>
    /\ seenTheatreIds' = {}
    /\ i' = 0
    /\ pc' = "theatres"
    /\ theatreData' = NoSettlement
    /\ allSessions' = <<>>
    /\ runner' = "none"
    /\ status' = "idle"
    /\ items' = <<>>
    /\ concurrency' = 0
    /\ queue' = <<>>
    /\ results' = <<>>
    /\ workers' = <<>>
    /\ fetchLog' = <<AreaRequest(1)>>
    /\ settleLog' = <<>>
    /\ UNCHANGED <<theatres, proxyVars>>

\* A catch block that starts the merged list afresh.
MergedOrCleared(all, seen, resp) ==
    IF resp.ok
    THEN MergeTheatres(all, seen, NearbyTheatres(resp.body))
    ELSE [allTheatres |-> <<>>, seenTheatreIds |-> {}]

\* try { const theatreData = await fetchTheatres(...); ...forEach... }
\* catch (error) { console.error(...) }
MergedAfter(all, seen, resp) ==
    IF resp.ok
    THEN MergeTheatres(all, seen, NearbyTheatres(resp.body))
    ELSE [allTheatres |-> all, seenTheatreIds |-> seen]

\* A check that never finds the list empty.
NeverEmpty(all) == FALSE

\* allTheatres.length === 0
NoTheatres(all) == all = <<>>

\* The fetchTheatres of area i + 1 settles with resp: the rest of the loop
\* body, then either the next iteration up to its await, or the code behind
\* the loop up to the await of fetchShowtimesForTheatres.
AreaSettles(resp) ==
    /\ pc = "theatres"
    /\ LET merged == MergedAfter(allTheatres, seenTheatreIds, resp)
       IN  /\ theatreData' = resp
           /\ allTheatres' = merged.allTheatres
           /\ seenTheatreIds' = merged.seenTheatreIds
           /\ i' = i + 1
           /\ IF i + 1 < locations
              THEN /\ progress' = Progress("theatres", i + 2, locations)
                   /\ fetchLog' = Append(fetchLog, AreaRequest(i + 2))
                   /\ UNCHANGED <<runnerVars, pc, loading, error, theatres, settleLog>>
              ELSE IF NoTheatres(merged.allTheatres)
              THEN /\ error' = NoTheatresFound
                   /\ Finally
                   /\ UNCHANGED <<runnerVars, theatres, histVars>>
              ELSE /\ theatres' = merged.allTheatres
                   /\ progress' = Progress("showtimes", 0, Len(merged.allTheatres))
                   /\ Call("showtimes", merged.allTheatres, ShowtimeConcurrency)
                   /\ pc' = "showtimes"
                   /\ UNCHANGED <<loading, error>>
    /\ UNCHANGED <<locations, allSessions, movies, proxyVars>>

\* setError(`Failed to load showtimes: ${err.message}`)
FailedToLoad(message) == "Failed to load showtimes: " \o message

\* fetchShowtimesForTheatres returns: flatten, then the catch block if the
\* walk threw, the "no showtimes" state if no session was found, and
\* otherwise the code up to the await of fetchSeatAvailabilityBatch.
ShowtimesReturn ==
    /\ pc = "showtimes"
    /\ AllWorkersDone
    /\ LET sessions == FlattenShowtimes(results)
       IN  /\ allSessions' = (IF FlattenThrows(results) \/ sessions = <<>>
                            THEN sessions ELSE AfterSortOfCopy(sessions))
           /\ IF FlattenThrows(results)
              THEN /\ error' = FailedToLoad(NullTheatreMessage)
                   /\ Finally
                   /\ status' = "returned"
                   /\ UNCHANGED <<runner, items, concurrency, queue, results, workers>>
                   /\ UNCHANGED histVars
              ELSE IF sessions = <<>>
              THEN /\ error' = NoShowtimesFound
                   /\ Finally
                   /\ status' = "returned"
                   /\ UNCHANGED <<runner, items, concurrency, queue, results, workers>>
                   /\ UNCHANGED histVars
              ELSE /\ progress' = Progress("seats", 0, Min(Len(sessions), SeatFetchCap))
                   /\ Call("seats", SessionsToFetch(sessions), SeatConcurrency)
                   /\ pc' = "seats"
                   /\ UNCHANGED <<loading, error>>
    /\ UNCHANGED <<locations, i, theatreData, allTheatres, seenTheatreIds, movies, theatres,
                   proxyVars>>

\* fetchSeatAvailabilityBatch returns: merge the seat data, group, rank,
\* setMovies, finally.
SeatsReturn ==
    /\ pc = "seats"
    /\ AllWorkersDone
    /\ status' = "returned"
    /\ allSessions' = EnrichSessions(allSessions, results)
    /\ movies' = RankMovies(allSessions')
    /\ Finally
    /\ UNCHANGED <<runner, items, concurrency, queue, results, workers>>
    /\ UNCHANGED <<locations, i, theatreData, allTheatres, seenTheatreIds>>
    /\ UNCHANGED <<error, theatres, proxyVars, histVars>>

\* What the collaborators answer in a run of the whole pipeline.
AreaResponses ==
    { Rejected("HTTP 500"),
      Resolved([nearbyTheatres |-> <<Theatre(1, 1)>>]),
      Resolved([nearbyTheatres |-> <<Theatre(2, 1), Theatre(1, 1)>>]) }

\* A payload whose second entry is null.
BrokenPayload(t) == ShowtimesPayload(t, << [m |-> 1, times |-> <<2>>] >>) \o <<Null>>

ShowtimesResponses(theatre) ==
    {Rejected("HTTP 500"), Resolved(<<>>), Resolved(BrokenPayload(theatre.theatreId))}
    \cup {Resolved(ShowtimesPayload(theatre.theatreId, blocks)) : blocks \in BlockLists}

SeatResponses ==
    {Rejected("HTTP 404")}
    \cup {Resolved(SeatSnapshot(raw)) :
            raw \in { [k \in {"A1"} |-> "Occupied"],
                      [k \in {"A1", "A2"} |-> IF k = "A1" THEN "Occupied" ELSE "Available"] }}

PipelineResponses(kind, item) ==
    IF kind = "showtimes" THEN ShowtimesResponses(item) ELSE SeatResponses

AreaSettle == \E resp \in AreaResponses : AreaSettles(resp)

FetchSettle ==
    /\ pc \in {"showtimes", "seats"}
    /\ \E w \in InFlight :
       \E resp \in PipelineResponses(runner, workers[w].item) :
          FetchSettles(w, resp)
    /\ UNCHANGED <<pipeVars, uiVars, proxyVars>>

Next == StartRun \/ AreaSettle \/ FetchSettle \/ ShowtimesReturn \/ SeatsReturn

Spec == Init /\ [][Next]_vars

\* A batch runner returns to the run: the steps that take pc on from a
\* stage whose workers are all done.  They are the steps of ShowtimesReturn
\* and SeatsReturn, which are enabled exactly then.
BatchReturns ==
    /\ pc \in {"showtimes", "seats"}
    /\ AllWorkersDone
    /\ pc' \in {"seats", "done"}
    /\ pc' # pc

\* The same with every fetch settling in the end and every continuation
\* that can run running.
SpecLive == Spec /\ WF_vars(AreaSettle) /\ WF_vars(FetchSettle) /\ WF_pc(BatchReturns)

----------------------------------------------------------------------------
(* The pipeline with the showtimes payloads the collector has to cope with *)

\* A session with the upstream sold-out flag and seatsRemaining as given:
\* <<>> for a property the payload does not have, <<value>> otherwise.
SessionWith(id, start, flag, remaining) ==
    AssignIfDefined(AssignIfDefined(
        [vistaSessionId |-> id, showStartDateTime |-> start, auditorium |-> "1"],
        "isSoldOut", flag),
        "seatsRemaining", remaining)

\* A movie as theatre t describes it: theatre 1 with both posters and the
\* runtime, the other theatres under another name and with the small
\* poster only.
MovieAt(t, m, experiences) ==
    IF t = 1
    THEN [id |-> m, name |-> MovieName(m),
          mediumPosterImageUrl |-> "/medium.jpg", smallPosterImageUrl |-> "/small.jpg",
          runtimeInMinutes |-> 90 + m, presentationType |-> "2D",
          experiences |-> experiences]
    ELSE [id |-> m, name |-> MovieName(m) \o " 3D",
          mediumPosterImageUrl |-> "", smallPosterImageUrl |-> "/small3d.jpg",
          presentationType |-> "3D",
          experiences |-> experiences]

Experience(sessions) == [experienceTypes |-> <<"Regular">>, sessions |-> sessions]

TheatreEntry(t, dates) == [theatreId |-> t, theatre |-> "Cinema", dates |-> dates]

\* The answers to the showtimes request of theatre t: a failure, an empty
\* array, and payloads
\*  - with two sessions of movie 1, one sold out by the flag and one with
\*    no seat remaining,
\*  - with two sessions of movie 1 without the flag, one with no seat
\*    remaining and one without seatsRemaining,
\*  - with movie 2 before movie 1,
\*  - with an experience without type tags, an experience without
\*    sessions, a movie without experiences, a date without movies and a
\*    theatre entry without dates.
CollectResponses(theatre) ==
    LET t == theatre.theatreId
    IN  { Rejected("HTTP 500"),
          Resolved(<<>>),
          Resolved(<< TheatreEntry(t, << [movies |-> <<
              MovieAt(t, 1, << Experience(<<
                  SessionWith(11, 2, <<TRUE>>, <<5>>),
                  SessionWith(12, 1, <<FALSE>>, <<0>>) >>) >>) >>] >>) >>),
          Resolved(<< TheatreEntry(t, << [movies |-> <<
              MovieAt(t, 1, << Experience(<<
                  SessionWith(11, 1, <<>>, <<0>>),
                  SessionWith(12, 1, <<>>, <<>>) >>) >>) >>] >>) >>),
          Resolved(<< TheatreEntry(t, << [movies |-> <<
              MovieAt(t, 2, << Experience(<< SessionWith(11, 1, <<FALSE>>, <<5>>) >>) >>),
              MovieAt(t, 1, << Experience(<< SessionWith(21, 2, <<FALSE>>, <<5>>) >>) >>)
              >>] >>) >>),
          Resolved(<< TheatreEntry(t, <<
                        [movies |-> <<
                            MovieAt(t, 1, << [sessions |-> <<SessionWith(11, 1, <<FALSE>>, <<5>>)>>],
                                             [experienceTypes |-> <<"IMAX">>] >>),
                            [id |-> 2, name |-> MovieName(2)] >>],
                        [date |-> "tomorrow"] >>),
                      [theatreId |-> t, theatre |-> "Cinema"] >>) }

\* What the seat lookup answers here: a failure or a full house.
CollectSeatResponses == {Rejected("HTTP 404"), Resolved(SeatSnapshot(SeatMapOf({"A1"}, {"A1"})))}

CollectSettle ==
    /\ pc \in {"showtimes", "seats"}
    /\ \E w \in InFlight :
       \E resp \in (IF runner = "showtimes" THEN CollectResponses(workers[w].item)
                    ELSE CollectSeatResponses) :
          FetchSettles(w, resp)
    /\ UNCHANGED <<pipeVars, uiVars, proxyVars>>

NextCollect == StartRun \/ AreaSettle \/ CollectSettle \/ ShowtimesReturn \/ SeatsReturn

SpecCollect == Init /\ [][NextCollect]_vars

----------------------------------------------------------------------------
(* The theatre locator on its own: any answers of the theatre lookup *)

LocatorTheatreIds == {1, 2, 3}

\* The answers to the lookup of one area: a failure, a body without
\* nearbyTheatres, and every list of up to two theatres, each with the
\* data of that area.
LocatorResponses(area) ==
    {Rejected("HTTP 500"), Resolved([message |-> "none nearby"])}
    \cup {Resolved([nearbyTheatres |-> [k \in DOMAIN ids |-> Theatre(ids[k], area)]]) :
            ids \in SeqsUpTo(LocatorTheatreIds, 2)}

LocatorSettle == \E resp \in LocatorResponses(i + 1) : AreaSettles(resp)

NextLocator == StartRun \/ LocatorSettle

SpecLocator == Init /\ [][NextLocator]_vars

----------------------------------------------------------------------------
(* The pipeline with collaborators whose answer depends on the request    *)
(* alone: what varies is the order in which the fetches of a batch settle *)

\* What fetchShowtimes answers for a theatre: two sessions of movie 1 at
\* theatre 1, two sessions of movie 2 at theatre 2 that start when the
\* later one of theatre 1 starts, a failure elsewhere.
FixedShowtimes(theatre) ==
    CASE theatre.theatreId = 1 ->
            Resolved(ShowtimesPayload(1, << [m |-> 1, times |-> <<1, 2>>] >>))
      [] theatre.theatreId = 2 ->
            Resolved(ShowtimesPayload(2, << [m |-> 2, times |-> <<2, 2>>] >>))
      [] OTHER -> Rejected("HTTP 500")

\* What fetchSeatAvailability answers for a session: a house half full at
\* theatre 1, a full house elsewhere.
FixedSeats(session) ==
    IF session.theatreId = 1
    THEN Resolved(SeatSnapshot(SeatMapOf({"A1", "A2"}, {"A1"})))
    ELSE Resolved(SeatSnapshot(SeatMapOf({"A1"}, {"A1"})))

FixedResponse(kind, item) ==
    IF kind = "showtimes" THEN FixedShowtimes(item) ELSE FixedSeats(item)

\* One of the fetches in flight settles.
OrderSettle ==
    /\ pc \in {"showtimes", "seats"}
    /\ \E w \in InFlight : FetchSettles(w, FixedResponse(runner, workers[w].item))
    /\ UNCHANGED <<pipeVars, uiVars, proxyVars>>

NextOrder == StartRun \/ LocatorSettle \/ OrderSettle \/ ShowtimesReturn \/ SeatsReturn

SpecOrder == Init /\ [][NextOrder]_vars

----------------------------------------------------------------------------
(* The seat totals of the proxy on their own: any seat map *)

\* A seat map of total seats, the first occupied of them occupied, the next
\* available of them available, the others in another state.
SeatMapWith(total, occupied, available) ==
    [k \in 1..total |->
        IF k <= occupied THEN "Occupied"
        ELSE IF k <= occupied + available THEN "Available"
        ELSE "Broken"]

\* The bodies the upstream API answers with: a body without a seat map,
\* and seat maps of up to MaxSeats seats.
SeatBodies ==
    {[sessionId |-> 1]}
    \cup {[sessionId |-> 1, seatAvailabilities |-> SeatMapWith(c[1], c[2], c[3])] :
            c \in {c \in (0..MaxSeats) \X (0..MaxSeats) \X (0..MaxSeats) :
                        c[2] + c[3] <= c[1]}}

\* GET /api/seat-availability for a request that passes the validation and
\* misses the cache, answered by the upstream API with the body: the totals
\* are computed and the enriched body is sent.
SeatAvailability ==
    /\ data = NoRequest
    /\ \E body \in SeatBodies :
          /\ data' = body
          /\ enrichedData' = EnrichedData(body)
    /\ UNCHANGED <<runnerVars, pipeVars, uiVars, histVars, serverVars, controlVars>>

NextProxy == SeatAvailability

SpecProxy == Init /\ [][NextProxy]_vars

----------------------------------------------------------------------------
(* The backend server: requests, the clock, the answers of the upstream API *)

MaxPending == 2       \* most requests that await the upstream API at a time
MaxMinutes == 6       \* the minutes the clock of the proxy routes runs for
MaxHalfMinutes == 4   \* the half minutes the clock of the limiter runs for

frontVars == <<runnerVars, pipeVars, uiVars, histVars, data, enrichedData, controlVars>>

\* app.listen(PORT, () => { console.log(...) })
Listen ==
    /\ ~listening
    /\ listening' = TRUE
    /\ console' = StartupLines
    /\ res' = NoResponse
    /\ UNCHANGED <<frontVars, now, rateLimitStore, store, pending, upstream, admitted>>

\* history: the times that are less than a window before t
Since(times, t) ==
    LET Late(u) == u > t - WindowMs
    IN  SelectSeq(times, Late)

\* The clock advances by ms milliseconds.
TimePasses(ms) ==
    /\ listening
    /\ now' = now + ms
    /\ admitted' = [ip \in Ips |-> Since(admitted[ip], now')]
    /\ console' = <<>>
    /\ upstream' = NoAnswer
    /\ res' = NoResponse
    /\ UNCHANGED <<frontVars, listening, rateLimitStore, store, pending>>

\* The timer of cache.js fires: cache.cleanup()
CacheTimer ==
    /\ listening
    /\ now > 0
    /\ now % CleanupEveryMs = 0
    /\ LET keysToDelete == KeysToDelete(store, now)
       IN  /\ store' = MapDelete(store, keysToDelete)
           /\ console' = IF keysToDelete # {}
                         THEN << <<"[Cache] Cleaned up ", ToString(Cardinality(keysToDelete)),
                                   " expired entries">> >>
                         ELSE <<>>
    /\ upstream' = NoAnswer
    /\ res' = NoResponse
    /\ UNCHANGED <<frontVars, listening, now, rateLimitStore, pending, admitted>>

\* The route handler up to its response or to the await of the upstream
\* fetch, for a request the limiter passed on with the given headers.  The
\* requests that await the upstream API are told apart by what they hold;
\* evicted is history: the cache.get of the request deleted an entry.
Handles(ip, route, query, headers) ==
    IF MissingParams(route, query)
    THEN /\ res' = Response(ip, route, query, now, 400, headers,
                            [error |-> "Bad Request", message |-> BadRequestMessage(route)])
         /\ console' = <<>>
         /\ UNCHANGED <<store, pending>>
    ELSE IF InvalidParams(route, query)
    THEN /\ res' = Response(ip, route, query, now, 400, headers,
                            [error |-> "Bad Request", message |-> InvalidMessage(route)])
         /\ console' = <<>>
         /\ UNCHANGED <<store, pending>>
    ELSE LET cacheKey == CacheKey(route, query)
             cached == CacheGet(store, cacheKey, now)
         IN  /\ store' = cached.store
             /\ IF cached.value # Null
                THEN /\ res' = Response(ip, route, query, now, 200, headers, cached.value)
                     /\ console' = << <<"[Cache HIT] ", cacheKey>> >>
                     /\ pending' = pending
                ELSE LET request == [ip |-> ip, route |-> route, query |-> query,
                                     cacheKey |-> cacheKey, headers |-> headers,
                                     evicted |-> cached.store # store]
                     IN  /\ request \notin pending
                         /\ pending' = pending \cup {request}
                         /\ Cardinality(pending') <= MaxPending
                     /\ console' = << <<"[Cache MISS] ", cacheKey>>,
                                      <<"[API] Fetching ", route>> >>
                     /\ res' = NoResponse

\* A request arrives: the middleware of createRateLimiter, then the route
\* handler if the limiter calls next().
Arrives(ip, route, query) ==
    /\ listening
    /\ LET requests == RequestsOf(rateLimitStore, ip)
           windowStart == now - WindowMs
           recentRequests == RecentRequests(requests, windowStart)
       IN  IF LimitExceeded(recentRequests)
           THEN LET limited == TooManyRequests(recentRequests, now)
                IN  /\ res' = Response(ip, route, query, now, limited.status, limited.headers,
                                       limited.body)
                    /\ console' = <<>>
                    /\ UNCHANGED <<rateLimitStore, store, pending, admitted>>
           ELSE LET passed == Append(recentRequests, now)
                IN  /\ rateLimitStore' = MapSet(rateLimitStore, ip, passed)
                    /\ admitted' = [admitted EXCEPT ![ip] = Append(@, now)]
                    /\ Handles(ip, route, query, PassedHeaders(passed))
    /\ upstream' = NoAnswer
    /\ UNCHANGED <<frontVars, listening, now>>

\* What the upstream API may answer: the fetch fails, a status that is not
\* OK, or a body.  asOf is the time of the answer and asked is what the API
\* was asked; they stand for the data, which are those of that time for
\* that question.
UpstreamBody(route, url) ==
    IF route = "seats"
    THEN [asOf |-> now, asked |-> url,
          seatAvailabilities |-> SeatMapOf({"A1", "A2"}, {"A1"})]
    ELSE [asOf |-> now, asked |-> url]

UpstreamAnswers(route, url) ==
    {[kind |-> "rejected"]}
    \cup {[kind |-> "response", ok |-> FALSE, status |-> s] : s \in {404, 503}}
    \cup {[kind |-> "response", ok |-> TRUE, status |-> 200,
            body |-> UpstreamBody(route, url)]}

\* The upstream fetch of the request p settles: the rest of its handler.
Settles(p, answer) ==
    /\ p \in pending
    /\ pending' = pending \ {p}
    /\ upstream' = answer
    /\ IF answer.kind = "rejected"
       THEN /\ res' = Response(p.ip, p.route, p.query, now, 500, p.headers,
                               [error |-> "Internal Server Error",
                                message |-> FailedMessage(p.route)])
            /\ console' = << <<"[Error] /api/", p.route, "fetch failed">> >>
            /\ store' = store
       ELSE IF ~answer.ok
       THEN /\ res' = Response(p.ip, p.route, p.query, now,
                               UpstreamErrorStatus(answer.status),
                               p.headers, UpstreamError(answer.status))
            /\ console' = << <<"[API Error] returned ", ToString(answer.status)>> >>
            /\ store' = CacheOnError(store, p.cacheKey, UpstreamError(answer.status),
                                     TtlMs(p.route), now)
       ELSE LET value == RouteData(p.route, answer.body)
            IN  /\ store' = CacheSet(store, p.cacheKey, value, TtlMs(p.route), now)
                /\ res' = Response(p.ip, p.route, p.query, now, 200, p.headers, value)
                /\ console' = <<>>
    /\ UNCHANGED <<frontVars, listening, now, rateLimitStore, admitted>>

\* The query of a request that names every parameter of its route.
FullQuery(route) ==
    CASE route = "theatres" -> [latitude |-> "49.2765", longitude |-> "-123.1247"]
      [] route = "showtimes" -> [theatreId |-> "1422", date |-> "2/1/2026"]
      [] route = "seats" -> [theatreId |-> "1422", showtimeId |-> "77"]

\* The same theatres request, of a client that names a postal code too.
FullQueries(route) ==
    IF route = "theatres"
    THEN {FullQuery(route), Assign(FullQuery(route), "postalCode", "V5K 0A1")}
    ELSE {FullQuery(route)}

\* A query whose parameters are all there but do not pass the validation.
InvalidQuery(route) ==
    CASE route = "theatres" -> [latitude |-> "91", longitude |-> "-123.1247"]
      [] route = "showtimes" -> [theatreId |-> "abc", date |-> "2/1/2026"]

MinutePasses == now < MaxMinutes * 60 * 1000 /\ TimePasses(60 * 1000)

\* The routes that have an entry in the cache or a request under way.
RoutesInUse == {route \in Routes : CacheKey(route, FullQuery(route)) \in DOMAIN store}
               \cup {p.route : p \in pending}

\* The requests the model follows are those of one client: requests that
\* lack a parameter, for any route, and full requests for one route at a
\* time, that is until the cache holds no entry of the route any more.
RequestArrives ==
    \E route \in Routes :
        \/ Arrives("10.0.0.1", route, EmptyObject)
        \/ route # "seats" /\ Arrives("10.0.0.1", route, InvalidQuery(route))
        \/ /\ RoutesInUse \subseteq {route}
           /\ \E query \in FullQueries(route) : Arrives("10.0.0.1", route, query)

UpstreamSettles ==
    \E p \in pending :
    \E answer \in UpstreamAnswers(p.route, UpstreamUrl(p.route, p.query)) :
        Settles(p, answer)

NextBackend == Listen \/ MinutePasses \/ CacheTimer \/ RequestArrives \/ UpstreamSettles

SpecBackend == Init /\ [][NextBackend]_vars

----------------------------------------------------------------------------
(* The rate limiter on its own: requests of two clients that the route    *)
(* handler answers at once                                                *)

HalfMinutePasses == now < MaxHalfMinutes * 30 * 1000 /\ TimePasses(30 * 1000)

LimitedRequest == \E ip \in Ips : Arrives(ip, "showtimes", EmptyObject)

NextLimiter == Listen \/ HalfMinutePasses \/ LimitedRequest

SpecLimiter == Init /\ [][NextLimiter]_vars

----------------------------------------------------------------------------
(* The movie ranker on its own: any enriched session list *)

MaxRankSessions == 3

RankStartTimes == {1, 2}

\* Seat maps with 0, 33 and 100 per cent of the seats occupied.
NoneOccupied == SeatSnapshot(SeatMapOf({"A1"}, {}))
ThirdOccupied == SeatSnapshot(SeatMapOf({"A1", "A2", "A3"}, {"A1"}))
AllOccupied == SeatSnapshot(SeatMapOf({"A1"}, {"A1"}))

\* The sessions the ranker is given: movie, start time, and the seat data
\* (<<>> for none, or <<seatData>>). Movies 1 and 2 come with every start
\* time and with no, a third or all seats occupied; movie 3 without seat
\* data or with an empty house.
RankSessionKinds ==
    [m : {1, 2}, t : RankStartTimes, seats : {<<>>, <<ThirdOccupied>>, <<AllOccupied>>}]
    \cup {[m |-> 3, t |-> 1, seats |-> <<>>], [m |-> 3, t |-> 2, seats |-> <<NoneOccupied>>]}

\* The k-th session of a list, as the collector and the enricher leave it.
RankSession(k, kind) ==
    LET movie == MovieBlock(1, kind.m, <<kind.t>>)
        session == SessionRecord([theatreId |-> 1, theatre |-> "Cinema"], movie,
                                 movie.experiences[1], SessionAt(k, kind.t))
    IN  IF kind.seats = <<>> THEN session ELSE SetOccupancy(session, kind.seats[1])

RankInputs ==
    {[k \in DOMAIN kinds |-> RankSession(k, kinds[k])] :
        kinds \in SeqsUpTo(RankSessionKinds, MaxRankSessions) \ {<<>>}}

InitRank ==
    /\ runner = "none"
    /\ status = "idle"
    /\ items = <<>>
    /\ concurrency = 0
    /\ queue = <<>>
    /\ results = <<>>
    /\ workers = <<>>
    /\ pc = "ranking"
    /\ locations = 0
    /\ i = 0
    /\ theatreData = NoSettlement
    /\ allTheatres = <<>>
    /\ seenTheatreIds = {}
    /\ allSessions \in RankInputs
    /\ loading = TRUE
    /\ error = ""
    /\ movies = <<>>
    /\ theatres = <<>>
    /\ progress = NoProgress
    /\ data = NoRequest
    /\ enrichedData = NoRequest
    /\ ServerLoaded
    /\ ControlsMounted
    /\ fetchLog = <<>>
    /\ settleLog = <<>>

\* Steps 5 to 7 of loadTheatresAndShowtimes and setMovies(rankedMovies)
Rank ==
    /\ pc = "ranking"
    /\ movies' = RankMovies(allSessions)
    /\ pc' = "done"
    /\ UNCHANGED <<runnerVars, locations, i, theatreData, allTheatres, seenTheatreIds,
                   allSessions, loading, error, theatres, progress, proxyVars, histVars>>

NextRank == Rank

SpecRank == InitRank /\ [][NextRank]_vars

----------------------------------------------------------------------------
(* The controls: the location, the date and the runs they start.  A run is *)
(* followed by its two stages only: until the theatres are in state, and   *)
(* from there to its return.                                               *)

\* What the controls and the runs they start leave alone
restVars == <<runnerVars, pipeVars, histVars, data, enrichedData, serverVars>>

Dates == {1, 2}

\* The theatres a run finds around a location: theatre 1 around the position
\* of the device, theatres 2, 3, ... around the areas picked by hand.
TheatresNear(place) ==
    IF place.mode = "single" THEN <<Theatre(1, 1)>>
    ELSE [k \in 1..place.locations |-> Theatre(k + 1, k)]

\* The ranking a run ends with: one movie with one session, at the first
\* theatre of the run, starting on the date of the run.
MoviesOfRun(run) ==
    LET theatre == [theatreId |-> TheatresNear(run.location)[1].theatreId,
                    theatre |-> "Cinema"]
        movie == MovieBlock(1, 1, <<run.date>>)
    IN  RankMovies(<<SessionRecord(theatre, movie, movie.experiences[1],
                                   SessionAt(1, run.date))>>)

\* useEffect(() => { if (location) loadTheatresAndShowtimes() },
\* [location, selectedDate]): the run that starts after a render with a new
\* location or date, up to its first await.
EffectRuns(place, date) ==
    IF place = Null
    THEN UNCHANGED <<runs, uiVars>>
    ELSE /\ runs' = Append(runs, [location |-> place, date |-> date, stage |-> "theatres"])
         /\ loading' = TRUE
         /\ error' = ""
         /\ movies' = MoviesAtStart(movies)
         /\ progress' = Progress("theatres", 1, place.locations)
         /\ UNCHANGED theatres

\* onLocationSet = setLocation: App renders with the location.  LocationInput
\* is mounted while the location is null only, and is mounted with useGPS false.
SetLocation(place) ==
    /\ Len(runs) < MaxRuns
    /\ location' = place
    /\ useGPS' = FALSE
    /\ EffectRuns(place, selectedDate)
    /\ UNCHANGED selectedDate

\* LocationInput, requestGeolocation: the click on "Use My Current Location"
RequestGeolocation ==
    /\ location = Null
    /\ ~useGPS
    /\ ~loading
    /\ geolocating < MaxPositionRequests
    /\ useGPS' = TRUE
    /\ geolocating' = geolocating + 1
    /\ UNCHANGED <<location, selectedDate, runs, uiVars>>
    /\ UNCHANGED restVars

\* The click on "Choose Different Areas": setUseGPS(false)
ChooseDifferentAreas ==
    /\ location = Null
    /\ useGPS
    /\ ~loading
    /\ useGPS' = FALSE
    /\ UNCHANGED <<location, selectedDate, geolocating, runs, uiVars>>
    /\ UNCHANGED restVars

\* LocationInput, handleSubmit with n areas selected
HandleSubmit ==
    /\ location = Null
    /\ ~useGPS
    /\ ~loading
    /\ \E n \in 1..MaxAreas : SetLocation([mode |-> "multi", locations |-> n])
    /\ UNCHANGED geolocating
    /\ UNCHANGED restVars

\* The success callback of getCurrentPosition
PositionFound ==
    /\ geolocating > 0
    /\ geolocating' = geolocating - 1
    /\ SetLocation([mode |-> "single", locations |-> 1])
    /\ UNCHANGED restVars

\* The error callback of getCurrentPosition: setUseGPS(false)
PositionFails ==
    /\ geolocating > 0
    /\ geolocating' = geolocating - 1
    /\ useGPS' = FALSE
    /\ UNCHANGED <<location, selectedDate, runs, uiVars>>
    /\ UNCHANGED restVars

\* The click on "Change Location": setLocation(null)
ChangeLocation ==
    /\ location # Null
    /\ ~loading
    /\ location' = Null
    /\ EffectRuns(Null, selectedDate)
    /\ UNCHANGED <<selectedDate, useGPS, geolocating>>
    /\ UNCHANGED restVars

\* handleDateChange: the date input, set to another day
HandleDateChange ==
    /\ location # Null
    /\ ~loading
    /\ Len(runs) < MaxRuns
    /\ \E date \in Dates \ {selectedDate} :
          /\ selectedDate' = date
          /\ EffectRuns(location, date)
    /\ UNCHANGED <<location, useGPS, geolocating>>
    /\ UNCHANGED restVars

\* The runs but the k-th
Returned(k) == SubSeq(runs, 1, k - 1) \o SubSeq(runs, k + 1, Len(runs))

\* A run comes to the end of the area loop: with theatres it sets them and
\* goes on, without it reports that and returns.
RunLocates ==
    \E k \in DOMAIN runs :
       /\ runs[k].stage = "theatres"
       /\ \/ /\ theatres' = TheatresNear(runs[k].location)
             /\ progress' = Progress("showtimes", 0, Len(theatres'))
             /\ runs' = [runs EXCEPT ![k].stage = "showtimes"]
             /\ UNCHANGED <<loading, error, movies>>
          \/ /\ error' = NoTheatresFound
             /\ loading' = FALSE
             /\ progress' = NoProgress
             /\ runs' = Returned(k)
             /\ UNCHANGED <<movies, theatres>>
       /\ UNCHANGED <<location, selectedDate, useGPS, geolocating>>
       /\ UNCHANGED restVars

\* A run comes to its end: it has set the movies, found no showtimes or
\* caught an error; the finally block.
RunRanks ==
    \E k \in DOMAIN runs :
       /\ runs[k].stage = "showtimes"
       /\ \/ /\ movies' = MoviesOfRun(runs[k])
             /\ UNCHANGED error
          \/ /\ error' \in {NoShowtimesFound, FailedToLoad(NullTheatreMessage)}
             /\ UNCHANGED movies
       /\ loading' = FALSE
       /\ progress' = NoProgress
       /\ runs' = Returned(k)
       /\ UNCHANGED <<theatres, location, selectedDate, useGPS, geolocating>>
       /\ UNCHANGED restVars

NextControls ==
    \/ RequestGeolocation \/ ChooseDifferentAreas \/ HandleSubmit \/ PositionFound
    \/ PositionFails \/ ChangeLocation \/ HandleDateChange \/ RunLocates \/ RunRanks

SpecControls == Init /\ [][NextControls]_vars

----------------------------------------------------------------------------
(* Claims about a batch runner on its own (SpecRunner) *)

\* The items whose fetch was issued, in order of issue.
IssuedItems == [k \in 1..Len(fetchLog) |-> fetchLog[k].item]

\* Fetches started and not yet settled.
Unsettled == Len(fetchLog) - Len(settleLog)

\* How often x occurs in the sequence s.
Occurrences(s, x) == Cardinality({k \in DOMAIN s : s[k] = x})

\* The item a result record is about, as far as the record names it.
SameItem(kind, rec, item) ==
    IF kind = "showtimes"
    THEN rec.theatre = item
    ELSE rec.theatreId = item.theatreId /\ rec.showtimeId = item.vistaSessionId

\* C1: with a concurrency limit K >= 1 the number of fetches started and
\* not yet settled never exceeds K, whatever the order of the completions.
C1_InFlightAtMostK ==
    (status # "idle" /\ concurrency >= 1) => Unsettled <= concurrency

\* C1 witness: an input longer than K, one fetch already settled and its
\* worker on the next item, K fetches unsettled.
C1_Witness ==
    /\ status = "running"
    /\ concurrency >= 2
    /\ Len(items) > concurrency
    /\ settleLog # <<>>
    /\ Unsettled = concurrency

\* C2: when a runner called with K >= 1 returns, there is exactly one result
\* per input item (none skipped, none fetched or recorded twice, as many
\* results as inputs), and the results are in completion order.
C2_OneResultPerItem ==
    /\ (concurrency >= 1 /\ status # "idle") =>
          /\ Len(IssuedItems) <= Len(items)
          /\ IssuedItems = SubSeq(items, 1, Len(IssuedItems))
          /\ Len(results) = Len(settleLog)
          /\ \A k \in DOMAIN results : SameItem(runner, results[k], settleLog[k].item)
    /\ (concurrency >= 1 /\ status = "returned") =>
          /\ Len(results) = Len(items)
          /\ IssuedItems = items
          /\ \A x \in Range(items) :
                Occurrences(items, x) =
                   Cardinality({k \in DOMAIN results : SameItem(runner, results[k], x)})

\* C2 witness: a returned runner whose results are not in input order, with
\* an item that occurs twice in the input.
C2_Witness ==
    /\ status = "returned"
    /\ concurrency = 2
    /\ Len(items) = 3
    /\ items[1] = items[3]
    /\ items[1] # items[2]
    /\ SameItem(runner, results[1], items[2])

\* C3: a failing fetch never aborts the batch: the runner does not reject,
\* the failing item gets a record with success = false and the error's
\* message, a successful item a record with success = true and its value,
\* and at the return every item has its record.
C3_FailureIsRecorded ==
    (concurrency >= 1 /\ status # "idle") =>
       /\ status # "rejected"
       /\ Len(results) = Len(settleLog)
       /\ \A k \in DOMAIN results :
            LET rec == results[k]
                resp == settleLog[k].resp
                value == IF runner = "showtimes" THEN "showtimes" ELSE "seatData"
            IN  /\ SameItem(runner, rec, settleLog[k].item)
                /\ rec.success = resp.ok
                /\ resp.ok => /\ value \in DOMAIN rec
                              /\ rec[value] = resp.body
                              /\ "error" \notin DOMAIN rec
                /\ ~resp.ok => /\ "error" \in DOMAIN rec
                               /\ rec.error = resp.message
                               /\ value \notin DOMAIN rec
       /\ status = "returned" => Len(results) = Len(items)

\* C3 witness: a returned batch of three whose first settled fetch failed
\* and whose later ones succeeded.
C3_Witness ==
    /\ status = "returned"
    /\ concurrency >= 1
    /\ Len(results) = 3
    /\ ~results[1].success
    /\ results[2].success
    /\ results[3].success

\* C20: the number of workers a runner starts is the concurrency limit K
\* clamped to [1, queue length]: never more than the queue length and, for
\* a non-empty queue, never fewer than one, so that a limit below 1 still
\* processes every item.
C20_WorkersClamped ==
    status # "idle" =>
        /\ Len(workers) <= Len(items)
        /\ items # <<>> =>
              /\ status # "rejected"
              /\ Len(workers) = (IF concurrency < 1 THEN 1
                                 ELSE IF concurrency > Len(items) THEN Len(items)
                                 ELSE concurrency)
        /\ status = "returned" => Len(results) = Len(items)

\* The runner returns: with a concurrency of 1 or more it does so with an
\* empty queue and no fetch in flight.
C34_Step ==
    (status = "running" /\ status' = "returned" /\ concurrency >= 1) =>
        /\ queue = <<>>
        /\ InFlight = {}
        /\ Len(results) = Len(items)

\* C34: provided every fetch settles in the end, a batch runner returns in
\* the end, whatever the length of the queue and whatever K >= 1; and it
\* returns only when the queue is empty and no operation is in flight.
C34_RunnerReturns ==
    /\ (status = "running" /\ concurrency >= 1) ~> (status = "returned")
    /\ [][C34_Step]_vars

\* C34 witness: a runner that has returned from more items than workers,
\* one of its fetches having failed.
C34_Witness ==
    /\ status = "returned"
    /\ concurrency >= 1
    /\ concurrency < Len(items)
    /\ Len(results) = Len(items)
    /\ \E k \in DOMAIN results : ~results[k].success
    /\ \E k \in DOMAIN results : results[k].success

\* A worker whose fetch was in flight is done after the step only if it
\* found the queue empty.
C35_Step ==
    \A w \in DOMAIN workers :
        (w \in DOMAIN workers' /\ workers[w].st = "inflight" /\ workers'[w].st = "done") =>
            queue = <<>>

\* C35: the batch runner is work-conserving: while its queue is not empty
\* every started worker has an operation in flight, so that the number in
\* flight is min(K, length of the array); a worker goes idle only after it
\* has found the queue empty.
C35_WorkConserving ==
    /\ []((status = "running" /\ queue # <<>>) =>
             /\ \A w \in DOMAIN workers : workers[w].st = "inflight"
             /\ Cardinality(InFlight) = Min(concurrency, Len(items)))
    /\ [][C35_Step]_vars

\* C35 witness: after a settlement the queue still holds an item and every
\* worker is busy.
C35_Witness ==
    /\ status = "running"
    /\ queue # <<>>
    /\ results # <<>>
    /\ concurrency >= 1
    /\ Cardinality(InFlight) = concurrency

----------------------------------------------------------------------------
(* Claims about the theatre locator (SpecLocator) *)

TheatreIdsOf(list) == {list[k].theatreId : k \in DOMAIN list}

\* The first entry of list with the given id.
FirstWithId(list, id) ==
    list[CHOOSE k \in DOMAIN list :
            /\ list[k].theatreId = id
            /\ \A j \in 1..(k - 1) : list[j].theatreId # id]

\* The theatres the latest lookup returned.
LatestNearby(resp) == IF resp.ok THEN NearbyTheatres(resp.body) ELSE <<>>

\* One step of the area loop: the entries merged so far stay where they
\* are, and exactly the ids not yet seen are added, each with the first
\* entry the lookup returned for it.
C4_Step ==
    pc = "theatres" =>
        LET nearby == LatestNearby(theatreData')
            old == Len(allTheatres)
        IN  /\ Len(allTheatres') >= old
            /\ SubSeq(allTheatres', 1, old) = allTheatres
            /\ TheatreIdsOf(allTheatres') = TheatreIdsOf(allTheatres) \cup TheatreIdsOf(nearby)
            /\ \A k \in (old + 1)..Len(allTheatres') :
                  allTheatres'[k] = FirstWithId(nearby, allTheatres'[k].theatreId)

\* C4: the merged theatre list holds each distinct theatreId exactly once,
\* and the entry kept for an id is its first occurrence in area order.
C4_FirstOccurrenceOnce ==
    /\ [](\A j, k \in DOMAIN allTheatres :
             j # k => allTheatres[j].theatreId # allTheatres[k].theatreId)
    /\ [][C4_Step]_vars

\* C4 witness: two areas were looked up, the second returned theatre 1 with
\* its own data, and the merged list keeps the entry of the first area
\* next to a theatre only the second area returned.
C4_Witness ==
    /\ pc = "showtimes"
    /\ locations >= 2
    /\ Theatre(1, 1) \in Range(allTheatres)
    /\ Theatre(1, 2) \in Range(LatestNearby(theatreData))
    /\ Theatre(2, 2) \in Range(allTheatres)

\* The requests of the given kind that the run has issued.
Requests(kind) == {k \in DOMAIN fetchLog : fetchLog[k].kind = kind}

\* The area requests of the run, in order of issue.
AreaRequests ==
    LET IsArea(entry) == entry.kind = "theatres"
    IN  SelectSeq(fetchLog, IsArea)

\* C12: if the merged theatre list is empty after the last area, the run
\* ends there: the "no theatres found" message is reported, no showtime
\* or seat fetch is issued and no ranking is produced.
C12_NoTheatresIsTerminal ==
    /\ (pc \notin {"idle", "theatres"} /\ allTheatres = <<>>) =>
          /\ pc = "done"
          /\ error = NoTheatresFound
          /\ ~loading
          /\ movies = <<>>
          /\ runner = "none"
          /\ Len(fetchLog) = locations
          /\ Requests("showtimes") = {}
          /\ Requests("seats") = {}
    /\ error = NoTheatresFound => (pc = "done" /\ allTheatres = <<>>)

\* C12 witness: a run over two areas that ended without a theatre, the
\* last lookup answered without a list of theatres.
C12_Witness ==
    /\ pc = "done"
    /\ locations = 2
    /\ i = 2
    /\ error = NoTheatresFound
    /\ theatreData.ok
    /\ "nearbyTheatres" \notin DOMAIN theatreData.body

\* One step of the area loop: the theatres of a lookup that succeeded are
\* in the merged list, nothing merged before is lost, and after any
\* settlement but the last the next area is looked up.
C14_Step ==
    pc = "theatres" =>
        /\ TheatreIdsOf(LatestNearby(theatreData')) \subseteq TheatreIdsOf(allTheatres')
        /\ TheatreIdsOf(allTheatres) \subseteq TheatreIdsOf(allTheatres')
        /\ i + 1 < locations =>
              /\ pc' = "theatres"
              /\ fetchLog' = Append(fetchLog, AreaRequest(i + 2))

\* C14: a failed theatre lookup of one area is not fatal: every area is
\* looked up, and the theatres of the areas whose lookup succeeded are all
\* in the merged list.
C14_AreaFailureNotFatal ==
    /\ [](pc \notin {"idle", "theatres"} =>
             AreaRequests = [k \in 1..locations |-> AreaRequest(k)])
    /\ [][C14_Step]_vars

\* C14 witness: the lookup of the second of two areas failed and the run
\* went on with the theatres of the first.
C14_Witness ==
    /\ pc = "showtimes"
    /\ locations = 2
    /\ ~theatreData.ok
    /\ Len(allTheatres) = 2

----------------------------------------------------------------------------
(* Claims about the whole pipeline (Spec) *)

\* Every session the state holds: the full list and the sessions of the
\* ranked movies.
SessionsInState ==
    Range(allSessions) \cup UNION {Range(movies[g].showtimes) : g \in DOMAIN movies}

\* C5: every session carries all four occupancy fields or none of them.
C5_AllOrNothing ==
    \A session \in SessionsInState :
        \/ OccupancyFields \subseteq DOMAIN session
        \/ OccupancyFields \cap DOMAIN session = {}

\* C5 witness: a finished run with an enriched session and one that is not.
C5_Witness ==
    /\ pc = "done"
    /\ movies # <<>>
    /\ \E session \in Range(allSessions) : OccupancyFields \subseteq DOMAIN session
    /\ \E session \in Range(allSessions) : OccupancyFields \cap DOMAIN session = {}

\* The place of session k in the ascending order of start times, sessions
\* with equal start times in their array order: the number of sessions
\* that come before it.
StartRank(sessions, k) ==
    Cardinality({j \in DOMAIN sessions :
        \/ sessions[j].showStartDateTime < sessions[k].showStartDateTime
        \/ /\ sessions[j].showStartDateTime = sessions[k].showStartDateTime
           /\ j < k})

\* A session without the occupancy fields.
WithoutOccupancy(session) == [f \in DOMAIN session \ OccupancyFields |-> session[f]]

\* The first n sessions, at most, of the stable ascending sort by start time.
SoonestFirst(sessions, n) ==
    [r \in 1..Min(n, Len(sessions)) |->
        WithoutOccupancy(sessions[CHOOSE k \in DOMAIN sessions :
                                     StartRank(sessions, k) = r - 1])]

\* C8: a session that is not among the first SeatFetchCap sessions of the
\* list sorted by start time never has occupancy fields.
C8_BeyondCapNeverEnriched ==
    \A k \in DOMAIN allSessions :
        StartRank(allSessions, k) >= SeatFetchCap => ~HasSeatData(allSessions[k])

\* C8 witness: a finished run with more sessions than the cap in which
\* every seat fetch succeeded, so that only the cap keeps a session bare.
C8_Witness ==
    /\ pc = "done"
    /\ Len(allSessions) > SeatFetchCap
    /\ \A k \in DOMAIN results : results[k].success
    /\ \E j, k \in DOMAIN allSessions :
          /\ j < k
          /\ ~HasSeatData(allSessions[j])
          /\ HasSeatData(allSessions[k])

\* The sessions whose seat fetch was issued, in order of issue.
SeatFetches ==
    LET IsSeat(entry) == entry.kind = "seats"
        log == SelectSeq(fetchLog, IsSeat)
    IN  [k \in 1..Len(log) |-> log[k].item]

\* C9: the seat fetches of a run are issued for exactly the first
\* min(n, SeatFetchCap) sessions of the stable ascending sort by start time,
\* so there are never more than SeatFetchCap of them.
C9_FetchesSoonestUpToCap ==
    /\ Len(SeatFetches) <= SeatFetchCap
    /\ pc = "seats" =>
          /\ items = SoonestFirst(allSessions, SeatFetchCap)
          /\ Len(SeatFetches) <= Len(items)
          /\ SeatFetches = SubSeq(items, 1, Len(SeatFetches))
          /\ AllWorkersDone => SeatFetches = items
    /\ (pc = "done" /\ runner = "seats") =>
          SeatFetches = SoonestFirst(allSessions, SeatFetchCap)

\* C9 witness: every seat fetch of a run has settled, there are more
\* sessions than the cap, the list is not in start order and two sessions
\* start at the same time.
C9_Witness ==
    /\ pc = "seats"
    /\ AllWorkersDone
    /\ Len(allSessions) > SeatFetchCap
    /\ Len(SeatFetches) = SeatFetchCap
    /\ \E j, k \in DOMAIN allSessions :
          j < k /\ allSessions[j].showStartDateTime > allSessions[k].showStartDateTime
    /\ \E j, k \in DOMAIN allSessions :
          j < k /\ allSessions[j].showStartDateTime = allSessions[k].showStartDateTime

\* The settled seat fetches that were issued for the session.
SettledFor(session) ==
    {k \in DOMAIN settleLog :
        /\ settleLog[k].item.theatreId = session.theatreId
        /\ settleLog[k].item.vistaSessionId = session.vistaSessionId}

\* C10: every enriched session carries the snapshot that the seat fetch
\* issued for its own (theatreId, sessionId) returned, whatever the order of
\* the completions and of the two lists.
C10_MergedByKey ==
    (pc = "done" /\ runner = "seats") =>
        \A k \in DOMAIN allSessions :
            LET session == allSessions[k]
            IN  HasSeatData(session) =>
                  \E e \in SettledFor(session) :
                     /\ settleLog[e].resp.ok
                     /\ \A f \in OccupancyFields : session[f] = settleLog[e].resp.body[f]

\* C10 witness: two sessions were enriched with different snapshots, the
\* seat fetches completed in another order than they were issued, and the
\* full list is in another order than the sorted subset.
C10_Witness ==
    /\ pc = "done"
    /\ runner = "seats"
    /\ Len(results) >= 2
    /\ results[1].success
    /\ results[2].success
    /\ results[1].seatData # results[2].seatData
    /\ settleLog[1].item = items[2]
    /\ allSessions[1].showStartDateTime > allSessions[2].showStartDateTime
    /\ HasSeatData(allSessions[1])
    /\ HasSeatData(allSessions[2])

\* The number of sessions the ranked movies hold.
RECURSIVE RankedSessions(_)
RankedSessions(ms) ==
    IF ms = <<>> THEN 0 ELSE Len(Head(ms).showtimes) + RankedSessions(Tail(ms))

\* C11: a failed seat fetch is never fatal: the seat runner does not
\* reject, the session whose fetch failed has no occupancy field, a
\* session whose fetch succeeded has the fields of its snapshot, and the
\* run ends with a ranking of all sessions and without an error, also
\* when every seat fetch failed.
C11_SeatFailureNotFatal ==
    /\ pc = "seats" => status = "running"
    /\ (pc = "done" /\ runner = "seats") =>
          /\ error = ""
          /\ movies # <<>>
          /\ RankedSessions(movies) = Len(allSessions)
          /\ \A k \in DOMAIN allSessions :
                LET session == allSessions[k]
                IN  /\ (\A e \in SettledFor(session) : ~settleLog[e].resp.ok) =>
                          OccupancyFields \cap DOMAIN session = {}
                    /\ \A e \in SettledFor(session) :
                          settleLog[e].resp.ok =>
                             \A f \in OccupancyFields :
                                /\ f \in DOMAIN session
                                /\ session[f] = settleLog[e].resp.body[f]

\* C11 witness: a finished run in which at least two seat fetches were
\* issued and every one of them failed, with its ranking.
C11_Witness ==
    /\ pc = "done"
    /\ runner = "seats"
    /\ Len(results) >= 2
    /\ \A k \in DOMAIN results : ~results[k].success
    /\ movies # <<>>
    /\ \A k \in DOMAIN allSessions : ~HasSeatData(allSessions[k])

\* The (theatreId, sessionId) pairs of the leaf sessions of a showtimes
\* payload.
LeafSessions(body) ==
    UNION { UNION { UNION { UNION {
        { <<body[a].theatreId, body[a].dates[b].movies[c].experiences[d].sessions[e].vistaSessionId>> :
            e \in DOMAIN body[a].dates[b].movies[c].experiences[d].sessions } :
          d \in DOMAIN body[a].dates[b].movies[c].experiences } :
        c \in DOMAIN body[a].dates[b].movies } :
      b \in DOMAIN body[a].dates } :
    a \in DOMAIN body }

\* The leaf sessions of the showtime fetches that succeeded.
CollectedLeaves ==
    UNION {LeafSessions(settleLog[k].resp.body) :
             k \in {j \in DOMAIN settleLog : settleLog[j].resp.ok}}

\* The step in which the showtimes batch returns without an exception: the
\* sessions are exactly the leaf sessions of the fetches that succeeded, a
\* theatre whose fetch failed has none, and the run goes on to the seats if
\* and only if there is a session.
C13_Step ==
    (pc = "showtimes" /\ pc' # "showtimes" /\ ~FlattenThrows(results)) =>
        /\ {<<allSessions'[k].theatreId, allSessions'[k].vistaSessionId>> :
               k \in DOMAIN allSessions'} = CollectedLeaves
        /\ Len(allSessions') = Cardinality(CollectedLeaves)
        /\ \A j \in DOMAIN settleLog :
              ~settleLog[j].resp.ok =>
                 \A k \in DOMAIN allSessions' :
                    allSessions'[k].theatreId # settleLog[j].item.theatreId
        /\ IF CollectedLeaves = {}
           THEN /\ pc' = "done"
                /\ error' = NoShowtimesFound
                /\ fetchLog' = fetchLog
           ELSE /\ pc' = "seats"
                /\ error' = ""

C22_NoRetry ==
    /\ \A j, k \in DOMAIN fetchLog : fetchLog[j] = fetchLog[k] => j = k
    /\ \A k \in Requests("theatres") : fetchLog[k].item.area \in 1..locations
    /\ \A k \in Requests("showtimes") : fetchLog[k].item \in Range(allTheatres)
    /\ \A k \in Requests("seats") :
          \E s \in DOMAIN allSessions :
              /\ allSessions[s].theatreId = fetchLog[k].item.theatreId
              /\ allSessions[s].vistaSessionId = fetchLog[k].item.vistaSessionId
    /\ Cardinality(Requests("theatres")) <= locations
    /\ Cardinality(Requests("showtimes")) <= Len(allTheatres)
    /\ Cardinality(Requests("seats")) <= Min(Len(allSessions), SeatFetchCap)

\* C22 witness: a finished run in which the lookup of the second area
\* failed and both seat fetches failed, with one request per area, per
\* theatre and per fetched session.
C22_Witness ==
    /\ pc = "done"
    /\ runner = "seats"
    /\ locations = 2
    /\ ~theatreData.ok
    /\ Len(settleLog) = 2
    /\ \A k \in DOMAIN settleLog : ~settleLog[k].resp.ok
    /\ Len(fetchLog) = 2 + Len(allTheatres) + 2

\* The place of a stage in the run.
StageRank(kind) == CASE kind = "theatres" -> 1 [] kind = "showtimes" -> 2 [] kind = "seats" -> 3

\* The requests of the given kind that the step issues.
IssuedInStep(kind) ==
    {k \in DOMAIN fetchLog' :
        /\ fetchLog'[k].kind = kind
        /\ (k \notin DOMAIN fetchLog \/ fetchLog[k] # fetchLog'[k])}

\* One step of a run: a showtime fetch is issued only once the last area
\* lookup has settled, a seat fetch only once every showtime fetch of the
\* batch has settled, and the ranking is set only once every seat fetch of
\* the batch has settled.
C21_Step ==
    /\ IssuedInStep("showtimes") # {} =>
          /\ pc' = "showtimes"
          /\ i' = locations
          /\ Len(AreaRequests') = locations
    /\ IssuedInStep("seats") # {} =>
          /\ pc' = "seats"
          /\ pc = "showtimes" =>
                /\ InFlight = {}
                /\ queue = <<>>
                /\ Len(settleLog) = Len(allTheatres)
                /\ Cardinality(Requests("showtimes")) = Len(allTheatres)
    /\ movies' # movies /\ movies' # <<>> =>
          /\ pc = "seats"
          /\ InFlight = {}
          /\ queue = <<>>
          /\ Len(settleLog) = Len(items)
          /\ Cardinality(Requests("seats")) = Len(items)

\* C21: the stages run strictly one after the other and a batch is never
\* cut short: the requests of a run are issued in the order areas,
\* showtimes, seats, no showtime fetch starts before every area lookup has
\* settled, no seat fetch before every showtime fetch has settled, failed
\* or not, and the ranking is computed after every seat fetch has settled.
C21_StagesInSequence ==
    /\ [](/\ \A j, k \in DOMAIN fetchLog :
                j < k => StageRank(fetchLog[j].kind) <= StageRank(fetchLog[k].kind)
          /\ pc = "theatres" => Requests("showtimes") \cup Requests("seats") = {}
          /\ pc = "showtimes" => Requests("seats") = {}
          /\ pc \in {"showtimes", "seats"} => i = locations)
    /\ [][C21_Step]_vars

\* C21 witness: a ranking after a batch of two showtime fetches and a
\* batch of two seat fetches of which the first to settle failed.
C21_Witness ==
    /\ pc = "done"
    /\ movies # <<>>
    /\ Cardinality(Requests("showtimes")) = 2
    /\ Len(settleLog) = 2
    /\ ~settleLog[1].resp.ok
    /\ settleLog[2].resp.ok

\* The items of the current stage that have been processed: the areas
\* whose lookup has settled, the fetches of the batch that have settled.
Processed == IF pc = "theatres" THEN i ELSE Len(results)

\* One step of a run: the progress report does not move back to an earlier
\* stage, and within a stage its count does not go down.
C25_Step ==
    (pc \in {"theatres", "showtimes", "seats"} /\ pc' # "done") =>
        /\ StageRank(progress.stage) <= StageRank(progress'.stage)
        /\ progress.stage = progress'.stage => progress.current <= progress'.current

\* C25: while a run is under way the progress report names the stage the
\* run is in, the stages follow one another as theatres, showtimes, seats,
\* 0 <= current <= total, and current counts the items of the stage as
\* they are processed: it is the number of items processed so far, or
\* that number plus one for the item under way.
C25_ProgressCountsUp ==
    /\ [](pc \in {"theatres", "showtimes", "seats"} =>
             /\ progress.stage = pc
             /\ progress.current \in 0..progress.total
             /\ progress.current \in {Processed, Processed + 1})
    /\ [][C25_Step]_vars

\* The sessions by theatre and session id, in the order of the list.
KeysInOrder(sessions) ==
    [k \in DOMAIN sessions |-> <<sessions[k].theatreId, sessions[k].vistaSessionId>>]

\* The leaf sessions of the showtime fetches that succeeded, by theatre and
\* session id, in the order in which the collector comes by them.
LeafKeysInOrder ==
    Concat([j \in DOMAIN settleLog |->
        IF settleLog[j].resp.ok
        THEN LET body == settleLog[j].resp.body
             IN  Concat([a \in DOMAIN body |->
                   Concat([b \in DOMAIN body[a].dates |->
                     Concat([c \in DOMAIN body[a].dates[b].movies |->
                       Concat([d \in DOMAIN body[a].dates[b].movies[c].experiences |->
                         [e \in DOMAIN body[a].dates[b].movies[c].experiences[d].sessions |->
                            <<body[a].theatreId,
                              body[a].dates[b].movies[c].experiences[d].sessions[e].vistaSessionId>>
                         ]])])])])
        ELSE <<>>])

\* The session list from the step that sorts and starts the seat batch to
\* the step that merges the seat data: it is in the order of the collector
\* when the batch is started, stays as it is while the batch runs, and the
\* merge keeps its length, its order and every field the sessions had, and
\* adds occupancy fields only.
C33_Step ==
    /\ (pc = "showtimes" /\ pc' = "seats") =>
          KeysInOrder(allSessions') = LeafKeysInOrder
    /\ (pc = "seats" /\ pc' = "seats") => allSessions' = allSessions
    /\ (pc = "seats" /\ pc' # "seats") =>
          /\ Len(allSessions') = Len(allSessions)
          /\ \A k \in DOMAIN allSessions :
                /\ \A f \in DOMAIN allSessions[k] :
                      /\ f \in DOMAIN allSessions'[k]
                      /\ allSessions'[k][f] = allSessions[k][f]
                /\ DOMAIN allSessions'[k] \ DOMAIN allSessions[k] \subseteq OccupancyFields

\* C33: enrichment changes nothing but occupancy fields: the priority sort
\* works on a copy, so the full session list keeps its length and its
\* original order, and every non-occupancy field of every session is
\* unchanged after enrichment.
C33_EnrichmentFrame == [][C33_Step]_vars

\* C33 witness: a ranked run whose session list is not in the order of the
\* start times, with a session that has seat data and a session that has
\* none.
C33_Witness ==
    /\ pc = "done"
    /\ movies # <<>>
    /\ \E k \in DOMAIN allSessions :
          /\ k < Len(allSessions)
          /\ allSessions[k].showStartDateTime > allSessions[k + 1].showStartDateTime
    /\ \E k \in DOMAIN allSessions : HasSeatData(allSessions[k])
    /\ \E k \in DOMAIN allSessions : ~HasSeatData(allSessions[k])

\* A run is over: nothing is loading and the progress is that of no stage.
RunOver == pc = "done" /\ ~loading /\ progress = NoProgress

\* C36: every pipeline run, however it ends (with a ranking, with the "no
\* theatres" or the "no showtimes" state, or with an exception), ends with
\* loading = false and the progress reset to the empty stage; provided all
\* fetches settle, every run that was started gets there.
C36_RunEndsReset ==
    /\ [](pc = "done" => RunOver)
    /\ [](loading <=> pc \in {"theatres", "showtimes", "seats"})
    /\ loading ~> RunOver

\* C36 witness: a run that found theatres and then ended with an exception,
\* after a run before it.
C36_Witness ==
    /\ RunOver
    /\ error = FailedToLoad(NullTheatreMessage)
    /\ theatres # <<>>
    /\ movies = <<>>

\* C38: once a run is over, the theatres in state are the deduplicated
\* theatres that run found, none if it found none: never those of a run
\* before it.
C38_TheatresOfThisRun == pc = "done" => theatres = allTheatres

----------------------------------------------------------------------------
(* Claims about the collector and the grouping (SpecCollect) *)

\* The leaf sessions of a showtimes payload, each with the id of its
\* theatre entry; a missing array has no elements.
RawSessions(body) ==
    UNION { UNION { UNION { UNION {
        { [theatreId |-> body[a].theatreId,
           session |-> Each(Each(Each(Each(body[a], "dates")[b], "movies")[c],
                                 "experiences")[d], "sessions")[e]] :
            e \in DOMAIN Each(Each(Each(Each(body[a], "dates")[b], "movies")[c],
                                   "experiences")[d], "sessions") } :
          d \in DOMAIN Each(Each(Each(body[a], "dates")[b], "movies")[c], "experiences") } :
        c \in DOMAIN Each(Each(body[a], "dates")[b], "movies") } :
      b \in DOMAIN Each(body[a], "dates") } :
    a \in DOMAIN body }

\* The step in which the showtimes batch returns: the session made from a
\* leaf session is sold out exactly if the leaf has the flag set or has
\* seatsRemaining = 0.
C18_Step ==
    (pc = "showtimes" /\ pc' # "showtimes") =>
        \A j \in DOMAIN settleLog :
            settleLog[j].resp.ok =>
                \A raw \in RawSessions(settleLog[j].resp.body) :
                    \E k \in DOMAIN allSessions' :
                        /\ allSessions'[k].theatreId = raw.theatreId
                        /\ allSessions'[k].vistaSessionId = raw.session.vistaSessionId
                        /\ allSessions'[k].isSoldOut =
                              (\/ ("isSoldOut" \in DOMAIN raw.session /\ raw.session.isSoldOut)
                               \/ ("seatsRemaining" \in DOMAIN raw.session
                                     /\ raw.session.seatsRemaining = 0))

\* C18: isSoldOut of a session is true exactly when the upstream flag is
\* set or seatsRemaining is 0, and availableCount of a group is the number
\* of its sessions with isSoldOut false, between 0 and the size of the
\* group.
C18_SoldOutAndAvailableCount ==
    /\ [](\A g \in DOMAIN movies :
             /\ movies[g].availableCount =
                   Cardinality({k \in DOMAIN movies[g].showtimes :
                                  ~movies[g].showtimes[k].isSoldOut})
             /\ movies[g].availableCount \in 0..Len(movies[g].showtimes))
    /\ [][C18_Step]_vars

\* C18 witness: a ranked group with a session sold out by the flag alone,
\* a session sold out by seatsRemaining = 0 alone, and a session that is
\* not sold out.
C18_Witness ==
    /\ pc = "done"
    /\ \E g \in DOMAIN movies :
          /\ \E s \in Range(movies[g].showtimes) :
                s.isSoldOut /\ Get(s, "seatsRemaining") = <<5>>
          /\ \E s \in Range(movies[g].showtimes) :
                s.isSoldOut /\ Get(s, "seatsRemaining") = <<0>>
          /\ \E s \in Range(movies[g].showtimes) : ~s.isSoldOut
          /\ movies[g].availableCount = 1
          /\ Len(movies[g].showtimes) >= 3

\* The first session of the list that belongs to the movie.
FirstOfMovie(sessions, movieId) ==
    sessions[CHOOSE k \in DOMAIN sessions :
                /\ sessions[k].movieId = movieId
                /\ \A j \in 1..(k - 1) : sessions[j].movieId # movieId]

\* C19: there is exactly one ranked movie per distinct movieId of the
\* session list, every session is in the group of its movieId and in no
\* other, so that the group sizes sum to the number of sessions, and the
\* name, poster, runtime and presentation type of a group are those of the
\* first session of its movie.
C19_OneGroupPerMovie ==
    (pc = "done" /\ movies # <<>>) =>
        /\ {movies[g].movieId : g \in DOMAIN movies}
              = {allSessions[k].movieId : k \in DOMAIN allSessions}
        /\ \A g, h \in DOMAIN movies : movies[g].movieId = movies[h].movieId => g = h
        /\ RankedSessions(movies) = Len(allSessions)
        /\ \A g \in DOMAIN movies :
              LET movie == movies[g]
                  OfMovie(session) == session.movieId = movie.movieId
                  first == FirstOfMovie(allSessions, movie.movieId)
              IN  /\ movie.showtimes = SelectSeq(allSessions, OfMovie)
                  /\ Get(movie, "name") = Get(first, "movieName")
                  /\ Get(movie, "posterUrl") = Get(first, "posterUrl")
                  /\ Get(movie, "runtime") = Get(first, "runtime")
                  /\ Get(movie, "presentationType") = Get(first, "presentationType")

\* C19 witness: two ranked movies, one of them with sessions of two
\* theatres that describe the movie differently, the group with the data of
\* the first of them.
C19_Witness ==
    /\ pc = "done"
    /\ Len(movies) = 2
    /\ \E g \in DOMAIN movies :
          LET showtimes == movies[g].showtimes
          IN  /\ Len(showtimes) >= 2
              /\ showtimes[1].movieName # showtimes[Len(showtimes)].movieName
              /\ movies[g].name = showtimes[1].movieName
              /\ "runtime" \notin DOMAIN movies[g]
              /\ "runtime" \in DOMAIN showtimes[Len(showtimes)]

\* The leaf sessions of a showtimes payload in the order of the payload,
\* each with the theatre entry, the movie and the experience that enclose
\* it; a missing array has no elements.
LeavesOf(body) ==
    Concat([a \in DOMAIN body |->
      Concat([b \in DOMAIN Each(body[a], "dates") |->
        Concat([c \in DOMAIN Each(body[a].dates[b], "movies") |->
          Concat([d \in DOMAIN Each(body[a].dates[b].movies[c], "experiences") |->
            [e \in DOMAIN Each(body[a].dates[b].movies[c].experiences[d], "sessions") |->
               [theatre |-> body[a],
                movie |-> body[a].dates[b].movies[c],
                experience |-> body[a].dates[b].movies[c].experiences[d],
                session |-> body[a].dates[b].movies[c].experiences[d].sessions[e]]]])])])])

\* The leaf sessions of the showtime fetches that succeeded, in the order
\* in which the fetches settled.
LeavesCollected ==
    Concat([j \in DOMAIN settleLog |->
        IF settleLog[j].resp.ok THEN LeavesOf(settleLog[j].resp.body) ELSE <<>>])

\* The record is the flat form of the leaf.
RecordOfLeaf(record, leaf) ==
    /\ Get(record, "theatreId") = Get(leaf.theatre, "theatreId")
    /\ Get(record, "theatreName") = Get(leaf.theatre, "theatre")
    /\ Get(record, "movieId") = Get(leaf.movie, "id")
    /\ Get(record, "movieName") = Get(leaf.movie, "name")
    /\ Get(record, "runtime") = Get(leaf.movie, "runtimeInMinutes")
    /\ Get(record, "presentationType") = Get(leaf.movie, "presentationType")
    /\ Get(record, "posterUrl") \in {Get(leaf.movie, "mediumPosterImageUrl"),
                                     Get(leaf.movie, "smallPosterImageUrl")}
    /\ record.experienceTypes =
          (IF "experienceTypes" \in DOMAIN leaf.experience
           THEN leaf.experience.experienceTypes ELSE <<>>)
    /\ Get(record, "vistaSessionId") = Get(leaf.session, "vistaSessionId")
    /\ Get(record, "showStartDateTime") = Get(leaf.session, "showStartDateTime")

\* The step in which the showtimes batch returns.
C31_Step ==
    (pc = "showtimes" /\ pc' # "showtimes") =>
        /\ Len(allSessions') = Len(LeavesCollected)
        /\ \A k \in DOMAIN allSessions' : RecordOfLeaf(allSessions'[k], LeavesCollected[k])

\* C31: for every successful showtime response the collector emits exactly
\* one flat session record per leaf session of the nested theatre / date /
\* movie / experience / session structure, so that the number of records is
\* the number of leaf sessions of all successful responses; each record has
\* the theatreId of its theatre, the id and the display data of its movie
\* and the type tags of its experience.
C31_OneRecordPerLeaf == [][C31_Step]_vars

\* C31 witness: the seat batch starts with the three sessions of two
\* theatres, one of them of an experience without type tags.
C31_Witness ==
    /\ pc = "seats"
    /\ settleLog = <<>>
    /\ Len(allSessions) = 3
    /\ \E k \in DOMAIN allSessions : allSessions[k].experienceTypes = <<>>
    /\ \E k \in DOMAIN allSessions : allSessions[k].theatreId # allSessions[1].theatreId

----------------------------------------------------------------------------
(* Claims about the completion order (SpecOrder) *)

\* The results of a batch whose fetches settle in the order of the array.
ResultsInOrder(kind, its) ==
    [k \in DOMAIN its |-> ResultOf(kind, its[k], FixedResponse(kind, its[k]))]

\* The sessions and the ranking of the run whose fetches all settle in the
\* order in which they were issued.
SessionsInOrder ==
    LET sessions == FlattenShowtimes(ResultsInOrder("showtimes", allTheatres))
    IN  EnrichSessions(sessions, ResultsInOrder("seats", SessionsToFetch(sessions)))

\* The sessions of the list that have occupancy data.
EnrichedKeys(sessions) ==
    {<<sessions[k].theatreId, sessions[k].vistaSessionId>> :
        k \in {j \in DOMAIN sessions : HasSeatData(sessions[j])}}

\* The ranked list as far as its order and the metrics go.
RankedMetrics(ms) ==
    [k \in DOMAIN ms |->
        [movieId |-> ms[k].movieId,
         availableCount |-> ms[k].availableCount,
         averageOccupancy |-> Get(ms[k], "averageOccupancy"),
         totalSeatsBooked |-> Get(ms[k], "totalSeatsBooked"),
         totalSeatsAvailable |-> Get(ms[k], "totalSeatsAvailable"),
         earliestShowtime |-> ms[k].earliestShowtime]]

\* C23: with collaborators whose answer depends on the request alone, a
\* run ends, whatever the order in which its fetches settle, with the
\* sessions enriched and the movies ranked that the run ends with whose
\* fetches settle in the order of issue.
C23_CompletionOrderIrrelevant ==
    (pc = "done" /\ error = "") =>
        /\ EnrichedKeys(allSessions) = EnrichedKeys(SessionsInOrder)
        /\ RankedMetrics(movies) = RankedMetrics(RankMovies(SessionsInOrder))

----------------------------------------------------------------------------
(* Claims about the movie ranker (SpecRank) *)

\* The sessions of a ranked movie that have occupancy data.
WithData(movie) == {k \in DOMAIN movie.showtimes : HasSeatData(movie.showtimes[k])}

RECURSIVE TotalOccupancy(_, _)
\* The sum of occupancyPercentage over the sessions at the positions ks.
TotalOccupancy(showtimes, ks) ==
    IF ks = {} THEN 0
    ELSE LET k == CHOOSE x \in ks : TRUE
         IN  showtimes[k].occupancyPercentage + TotalOccupancy(showtimes, ks \ {k})

\* C6: averageOccupancy is undefined if and only if no session of the
\* group has occupancy data; otherwise it is the mean of occupancyPercentage
\* over the sessions with data, rounded to the nearest integer (halves up).
C6_AverageOverSessionsWithData ==
    \A g \in DOMAIN movies :
        LET movie == movies[g]
            n == Cardinality(WithData(movie))
            total == TotalOccupancy(movie.showtimes, WithData(movie))
        IN  /\ HasAverage(movie) <=> n > 0
            /\ n > 0 =>
                 /\ 2 * n * movie.averageOccupancy <= 2 * total + n
                 /\ 2 * n * movie.averageOccupancy > 2 * total - n

\* C6 witness: a ranked movie with a session without data between two
\* sessions with data, of 33 and 100 per cent, and the mean 67.
C6_Witness ==
    /\ pc = "done"
    /\ \E g \in DOMAIN movies :
          /\ Len(movies[g].showtimes) = 3
          /\ WithData(movies[g]) = {1, 3}
          /\ TotalOccupancy(movies[g].showtimes, WithData(movies[g])) = 133
          /\ movies[g].averageOccupancy = 67

\* The earliest start time of the sessions of a ranked movie.
EarliestStart(movie) ==
    CHOOSE t \in {movie.showtimes[k].showStartDateTime : k \in DOMAIN movie.showtimes} :
        \A k \in DOMAIN movie.showtimes : t <= movie.showtimes[k].showStartDateTime

\* The first session of the group that starts at the earliest start time.
FirstAtEarliest(movie) ==
    movie.showtimes[CHOOSE k \in DOMAIN movie.showtimes :
        /\ movie.showtimes[k].showStartDateTime = EarliestStart(movie)
        /\ \A j \in 1..(k - 1) :
              movie.showtimes[j].showStartDateTime # EarliestStart(movie)]

\* C32: the earliest start time reported for a movie group is the minimum
\* start time of the sessions of the group, and of several sessions with
\* that start time the first in the group's session order is the one
\* chosen.
C32_EarliestIsMinimum ==
    \A g \in DOMAIN movies :
        /\ movies[g].earliestShowtime = EarliestStart(movies[g])
        /\ \A k \in DOMAIN movies[g].showtimes :
              movies[g].earliestShowtime <= movies[g].showtimes[k].showStartDateTime
        /\ EarliestShowtime(movies[g].showtimes) = FirstAtEarliest(movies[g])

\* C32 witness: a group whose first session starts later than its second
\* and third, which start together.
C32_Witness ==
    /\ pc = "done"
    /\ \E g \in DOMAIN movies :
          LET showtimes == movies[g].showtimes
          IN  /\ Len(showtimes) = 3
              /\ showtimes[1].showStartDateTime > showtimes[2].showStartDateTime
              /\ showtimes[2].showStartDateTime = showtimes[3].showStartDateTime
              /\ showtimes[2] # showtimes[3]
              /\ movies[g].earliestShowtime = showtimes[2].showStartDateTime
              /\ EarliestShowtime(showtimes) = showtimes[2]

\* C7: in the ranked list a group with a defined averageOccupancy precedes
\* every group without one, the defined values do not increase, and groups
\* that are still tied are in ascending order of their earliest start time.
C7_RankingOrder ==
    \A g, h \in DOMAIN movies :
        g < h =>
            LET a == movies[g]
                b == movies[h]
            IN  /\ HasAverage(b) => HasAverage(a)
                /\ (HasAverage(a) /\ HasAverage(b)) =>
                      /\ a.averageOccupancy >= b.averageOccupancy
                      /\ a.averageOccupancy = b.averageOccupancy =>
                            EarliestStart(a) <= EarliestStart(b)
                /\ (~HasAverage(a) /\ ~HasAverage(b)) =>
                      EarliestStart(a) <= EarliestStart(b)

\* C7 witness: three ranked movies, the first two with equal averages and
\* different earliest start times, given in the other order, the third, the
\* first of the session list, with a lower average.
C7_Witness ==
    /\ pc = "done"
    /\ Len(movies) = 3
    /\ \A g \in DOMAIN movies : HasAverage(movies[g])
    /\ movies[1].averageOccupancy = movies[2].averageOccupancy
    /\ EarliestStart(movies[1]) < EarliestStart(movies[2])
    /\ movies[1].movieId > movies[2].movieId
    /\ movies[3].averageOccupancy < movies[2].averageOccupancy
    /\ allSessions[1].movieId = movies[3].movieId

\* The position at which the movie first appears in the session list.
FirstSeen(sessions, movieId) ==
    CHOOSE k \in DOMAIN sessions :
        /\ sessions[k].movieId = movieId
        /\ \A j \in 1..(k - 1) : sessions[j].movieId # movieId

\* Two ranked movies that none of the three ordering rules tells apart.
Tied(a, b) ==
    /\ Get(a, "averageOccupancy") = Get(b, "averageOccupancy")
    /\ EarliestStart(a) = EarliestStart(b)

\* C24: ranked movies that are tied under all three ordering rules are in
\* the order in which their movieId first appeared in the session list.
C24_TiesKeepFirstAppearance ==
    \A g, h \in DOMAIN movies :
        (g < h /\ Tied(movies[g], movies[h])) =>
            FirstSeen(allSessions, movies[g].movieId)
                < FirstSeen(allSessions, movies[h].movieId)

RECURSIVE TotalOver(_, _, _)
\* The sum of a field over the sessions at the positions ks.
TotalOver(showtimes, field, ks) ==
    IF ks = {} THEN 0
    ELSE LET k == CHOOSE x \in ks : TRUE
         IN  showtimes[k][field] + TotalOver(showtimes, field, ks \ {k})

\* C17: totalSeatsBooked (totalSeatsAvailable) of a movie group is the sum
\* of occupiedSeats (totalSeats) over the sessions of the group that have
\* occupancy data, and it is undefined exactly when no session of the
\* group contributed data.
C17_TotalsOverSessionsWithData ==
    \A g \in DOMAIN movies :
        LET movie == movies[g]
        IN  /\ "totalSeatsBooked" \in DOMAIN movie <=> WithData(movie) # {}
            /\ "totalSeatsAvailable" \in DOMAIN movie <=> WithData(movie) # {}
            /\ WithData(movie) # {} =>
                  /\ movie.totalSeatsBooked =
                        TotalOver(movie.showtimes, "occupiedSeats", WithData(movie))
                  /\ movie.totalSeatsAvailable =
                        TotalOver(movie.showtimes, "totalSeats", WithData(movie))

----------------------------------------------------------------------------
(* Claims about the seat totals of the proxy (SpecProxy) *)

\* num / den rounded to the nearest integer, a half rounded up, for
\* num >= 0 and den > 0.
RoundHalfUp(num, den) == ((2 * num) + den) \div (2 * den)

\* C16: the snapshot of a raw seat map has totalSeats = the number of
\* seats, occupiedSeats = the number tagged Occupied, availableSeats = the
\* number tagged Available and occupancy = round(100 * occupied / total),
\* which is 0 when total = 0; hence occupied + available <= total and
\* 0 <= occupancy <= 100.
C16_SnapshotArithmetic ==
    enrichedData # NoRequest =>
        LET raw == SeatAvailabilities(data)
            total == Cardinality(DOMAIN raw)
            occupied == Cardinality({k \in DOMAIN raw : raw[k] = "Occupied"})
            available == Cardinality({k \in DOMAIN raw : raw[k] = "Available"})
        IN  /\ enrichedData.totalSeats = total
            /\ enrichedData.occupiedSeats = occupied
            /\ enrichedData.availableSeats = available
            /\ enrichedData.occupancyPercentage =
                  (IF total = 0 THEN 0 ELSE RoundHalfUp(100 * occupied, total))
            /\ enrichedData.occupiedSeats + enrichedData.availableSeats
                  <= enrichedData.totalSeats
            /\ enrichedData.occupancyPercentage \in 0..100

----------------------------------------------------------------------------
(* Claims about the rate limiter (SpecLimiter) *)

\* The requests of ip the limiter has admitted in the window that ends now:
\* admitted keeps the times of admission that are less than windowMs old.
AdmittedInWindow(ip) == Len(admitted[ip])

\* No client has more than maxRequests admissions in a window.
C26_Bound == \A ip \in Ips : AdmittedInWindow(ip) <= MaxRequests

\* A request arrives and is answered: one at the limit gets 429 and
\* nothing of the handler happens, one below it is admitted and gets the
\* handler's answer; the admissions of the other clients stay as they are.
C26_Step ==
    (res' # NoResponse /\ res' # res) =>
        LET ip == res'.ip
        IN  /\ IF AdmittedInWindow(ip) >= MaxRequests
               THEN /\ res'.status = 429
                    /\ res'.body.error = "Too many requests"
                    /\ admitted' = admitted
                    /\ rateLimitStore' = rateLimitStore
               ELSE /\ res'.status = 400
                    /\ res'.body.error = "Bad Request"
                    /\ admitted'[ip] = Append(admitted[ip], now)
            /\ \A other \in Ips \ {ip} :
                  /\ admitted'[other] = admitted[other]
                  /\ RequestsOf(rateLimitStore', other) = RequestsOf(rateLimitStore, other)

\* C26: for each client IP the limiter admits at most maxRequests requests
\* in any window of windowMs, the window being the last windowMs up to and
\* including now; a request that arrives when maxRequests requests of its
\* IP were admitted within the last windowMs gets 429 and is not passed to
\* the route handler, and the requests of the other IPs are unaffected.
C26_AtMostMaxRequestsPerWindow == []C26_Bound /\ [][C26_Step]_vars

\* One client is refused at the limit, its admissions being of different
\* times, while the other client has been admitted in the same window.
C26_Witness ==
    /\ res # NoResponse
    /\ res.status = 429
    /\ res.ip = "10.0.0.1"
    /\ AdmittedInWindow("10.0.0.1") = MaxRequests
    /\ admitted["10.0.0.1"][1] < admitted["10.0.0.1"][MaxRequests]
    /\ admitted["10.0.0.1"][1] > 0
    /\ AdmittedInWindow("10.0.0.2") > 0

\* The headers of a response are those of the limit, and they tell the limit
\* and what is left of it for the client in the window that ends now.
LimitAndRemaining(response) ==
    /\ {LimitHeader, RemainingHeader} \subseteq DOMAIN response.headers
    /\ response.headers[LimitHeader] = MaxRequests
    /\ response.headers[RemainingHeader] = MaxRequests - AdmittedInWindow(response.ip)
    /\ response.status = 429 => response.headers[RemainingHeader] = 0

\* C27: every response of a rate-limited route, admitted or rejected,
\* carries X-RateLimit-Limit, X-RateLimit-Remaining and X-RateLimit-Reset,
\* with Limit = maxRequests and Remaining = maxRequests minus the number of
\* requests of the IP admitted in the current window, which is 0 on a 429.
C27_RateLimitHeaders ==
    res # NoResponse =>
        /\ ResetHeader \in DOMAIN res.headers
        /\ LimitAndRemaining(res)

----------------------------------------------------------------------------
(* Claims about the cache and the routes (SpecBackend) *)

\* The key under which the requests of a route are cached.
KeyOf(route) == CacheKey(route, FullQuery(route))

\* The console tells what cache.get returned to the handler of the step.
CacheHit(lines, key) == lines = << <<"[Cache HIT] ", key>> >>
CacheMiss(lines, key) == lines # <<>> /\ lines[1] = <<"[Cache MISS] ", key>>

\* An entry expires at the time of its last set plus the TTL of its route;
\* asOf is the time the value was set at.
C28_Expiry ==
    \A route \in Routes :
        KeyOf(route) \in DOMAIN store =>
            store[KeyOf(route)].expiresAt = store[KeyOf(route)].value.asOf + TtlMs(route)

\* What the proxy answers from the cache is no older than the TTL of the route.
C28_Fresh ==
    \A route \in Routes :
        CacheHit(console, KeyOf(route)) =>
            /\ res.status = 200
            /\ res.route = route
            /\ res.at - res.body.asOf <= TtlMs(route)

\* A handler calls cache.get: it gets the stored value if there is one and
\* now is not past its expiry, and the entry stays; otherwise it gets null,
\* and an entry past its expiry is gone.
C28_Get ==
    \A route \in Routes :
        LET key == KeyOf(route)
            stored == key \in DOMAIN store
        IN  /\ CacheHit(console', key) =>
                  /\ stored
                  /\ now <= store[key].expiresAt
                  /\ res'.body = store[key].value
                  /\ store' = store
            /\ CacheMiss(console', key) =>
                  /\ stored => now > store[key].expiresAt
                  /\ key \notin DOMAIN store'
                  /\ res' = NoResponse

\* C28: Cache.get(key) returns the stored value only while the current time
\* is not past the entry's expiry (the time of the last set plus its TTL);
\* after expiry it returns null and removes the entry.  So the proxy never
\* serves a cached theatres, showtimes or seat response that is older than
\* 5, 2 or 1 minute(s).
C28_CacheExpiry == [](C28_Expiry /\ C28_Fresh) /\ [][C28_Get]_vars

\* The theatres are answered from the cache at the very end of their TTL.
C28_Witness ==
    /\ CacheHit(console, KeyOf("theatres"))
    /\ res.at - res.body.asOf = TtlMs("theatres")
    /\ res.body.asOf > 0

\* The upstream API has just answered the fetch of a request with a status
\* that is not OK.
UpstreamNotOk == upstream.kind = "response" /\ ~upstream.ok

\* C29: when the upstream API answers with a non-OK status s, the proxy
\* answers the client with the same status s and a JSON error body that has
\* an error and a message, whichever of the three routes was asked for.
C29_UpstreamStatusPassedThrough ==
    UpstreamNotOk =>
        /\ res.route \in Routes
        /\ res.status = upstream.status
        /\ {"error", "message"} \subseteq DOMAIN res.body
        /\ res.body.error = "Upstream API Error"
        /\ res.body.message = "Cineplex API returned status " \o ToString(upstream.status)

\* The seat route passes a 503 of the upstream API on.
C29_Witness ==
    /\ UpstreamNotOk
    /\ upstream.status = 503
    /\ res.route = "seats"
    /\ res.status = 503

\* The pieces of text a response is put together from: the names of its
\* headers and the texts of its body.
TextsOf(response) ==
    DOMAIN response.headers
    \cup {response.body[f] : f \in {"error", "message"} \cap DOMAIN response.body}

\* C30: the API key, or any part of it, never appears in any response sent
\* to a client nor in any log output of the backend, from startup onward.
C30_KeyNeverShown ==
    /\ \A line \in Range(console) : Range(line) \cap Range(API_KEY) = {}
    /\ res # NoResponse => TextsOf(res) \cap Range(API_KEY) = {}

\* Every value the cache holds is the body of an upstream answer that was
\* OK: it has the marks of such a body and is not an error body.
C39_HoldsOkBodies ==
    \A key \in DOMAIN store :
        /\ {"asOf", "asked"} \subseteq DOMAIN store[key].value
        /\ "error" \notin DOMAIN store[key].value
        /\ store[key].value.asOf <= now

\* The step answers a request with a failure: a 400 of the validation, the
\* 429 of the limiter, the status of an upstream error, or a 500.
C39_AnswersFailure == res' # NoResponse /\ res'.status # 200

\* The step takes a request in: the limiter passes it on to the handler.
C39_TakesIn == rateLimitStore' # rateLimitStore

\* The step that answers the failure leaves the cache as it is.
C39_AnswerLeavesCache == C39_AnswersFailure => store' = store

\* The request that is answered with the failure has not deleted an entry
\* before, when it looked its key up.
C39_NothingEvicted ==
    C39_AnswersFailure => \A p \in pending \ pending' : ~p.evicted

\* The step that takes a request in sets no entry; if it deletes one, that
\* is the entry under the key of the request, which was past its expiry.
C39_LookupDeletesExpiredOnly ==
    C39_TakesIn =>
        \A key \in DOMAIN store \cup DOMAIN store' :
            IF key \in DOMAIN store'
            THEN key \in DOMAIN store /\ store'[key] = store[key]
            ELSE now > store[key].expiresAt /\ CacheMiss(console', key)

\* C39, as stated: the cache only ever holds bodies of upstream answers
\* that were OK, and a request that is rejected with 400 or 429, answered
\* with an upstream error or that fails with an exception never creates,
\* replaces or removes a cache entry.
C39_FailuresLeaveCache ==
    /\ []C39_HoldsOkBodies
    /\ [][C39_AnswerLeavesCache /\ C39_NothingEvicted]_vars

\* C39, amended: the cache only ever holds bodies of upstream answers that
\* were OK; a request that ends in a failure never creates or replaces a
\* cache entry, and the only entry it can remove is the one under its own
\* key that was already past its expiry, which its cache lookup deletes.
C39_FailuresKeepLiveEntries ==
    /\ []C39_HoldsOkBodies
    /\ [][C39_AnswerLeavesCache /\ C39_LookupDeletesExpiredOnly]_vars

\* An upstream error is passed on while the cache holds an entry of the route.
C39_Witness ==
    /\ UpstreamNotOk
    /\ res.status = 503
    /\ KeyOf(res.route) \in DOMAIN store

\* C40: a theatres request is answered from the cache only with an entry
\* that was produced by a request whose upstream query was the same:
\* latitude, longitude, radius and the fields of the location context.
C40_HitOfSameQuery ==
    CacheHit(console, KeyOf("theatres")) =>
        res.body.asked = UpstreamUrl("theatres", res.query)

----------------------------------------------------------------------------
(* Claims about the controls (SpecControls) *)

\* The run that was started last of those in progress
NewestRun == runs[Len(runs)]

C37_NoChangeWhileLoading ==
    (location' # location \/ selectedDate' # selectedDate) => ~loading

C37_NewestRunWrites ==
    /\ theatres' # theatres => theatres' = TheatresNear(NewestRun.location)
    /\ (movies' # movies /\ movies' # <<>>) => movies' = MoviesOfRun(NewestRun)

\* C37: at most one run of loadTheatresAndShowtimes is in progress at any
\* time: the location and the date change only while no run is loading,
\* and the only run that sets the theatres or the movies is the one that
\* was started last.
C37_OneRunAtATime ==
    /\ [](Len(runs) <= 1)
    /\ [][C37_NoChangeWhileLoading /\ C37_NewestRunWrites]_vars

====
